---- MODULE Spec2Model ----
(***************************************************************************)
(* A model of the search core of Pikafish (src/src/search.cpp,             *)
(* src/src/evaluate.cpp, src/src/types.h).                                 *)
(*                                                                         *)
(*   Spec        the thread pool: start_searching of the main worker,      *)
(*               iterative_deepening of every worker, check_time and the   *)
(*               stop / ponderhit commands.                                *)
(*   SpecSearch  one call of search<Root> by one worker, with the calls    *)
(*               of search and qsearch below it, and the extraction of     *)
(*               the ponder move afterwards.                               *)
(*   SpecRoot    iterative_deepening of one worker over its root moves:    *)
(*               the aspiration loop, the sorts of rootMoves, the end of   *)
(*               an iteration and the bestmove.                            *)
(*   SpecTT      value_to_tt / value_from_tt applied to a table entry.     *)
(***************************************************************************)
EXTENDS Integers, Sequences, FiniteSets, TLC

VARIABLES
    \* ---- transposition-table value scaling (SpecTT) ----
    ttV,        \* the search value handed to value_to_tt
    ttPly,      \* ss->ply of the node that writes and probes
    ttR60,      \* pos.rule60_count() at the probe
    ttEntry,    \* the value field of the table entry
    ttOut,      \* what value_from_tt returned for the entry
    ttPc        \* "start" | "saved" | "evalonly" | "roundtrip" | "read"

ttVars == <<ttV, ttPly, ttR60, ttEntry, ttOut, ttPc>>

VARIABLES
    \* ---- thread pool, main worker and time checks (Spec) ----
    limits,           \* Search::LimitsType of the go command
    hasMoves,         \* the root position has a legal move (rootMoves not empty)
    stop,             \* threads.stop
    abortedSearch,    \* threads.abortedSearch
    ponder,           \* main_manager()->ponder
    stopOnPonderhit,  \* main_manager()->stopOnPonderhit
    callsCnt,         \* main_manager()->callsCnt
    mainPc,           \* position of the main worker in start_searching
    wpc,              \* per worker: position in iterative_deepening
    rootDepth,        \* per worker
    completedDepth,   \* per worker
    frontScore,       \* main worker: rootMoves[0].score
    frontExact,       \* main worker: rootMoves[0].score == rootMoves[0].uciScore
    bestThread,       \* the worker selected in start_searching (-1: none yet)
    bestmove,         \* the worker whose first root move was emitted (-1: none yet)
    lastInfo,         \* the last info line
    cmd,              \* an explicit stop or ponderhit command has arrived
    ev,               \* the last step taken: "step" | "check_time" | "check_time_stop"
    ct                \* what a check_time that set stop read: elapsed time, nodes_searched()

coVars == <<limits, hasMoves, stop, abortedSearch, ponder, stopOnPonderhit, callsCnt,
            mainPc, wpc, rootDepth, completedDepth, frontScore, frontExact,
            bestThread, bestmove, lastInfo, cmd, ev, ct>>

\* coVars without stop
coQuiet == <<limits, hasMoves, abortedSearch, ponder, stopOnPonderhit, callsCnt,
             mainPc, wpc, rootDepth, completedDepth, frontScore, frontExact,
             bestThread, bestmove, lastInfo, cmd, ev, ct>>

VARIABLES
    \* ---- one root search of one worker (SpecSearch); stop is shared ----
    stack,        \* the running invocations of search / qsearch, innermost last
    ssEval,       \* (ss + ply)->staticEval, for ply -2 .. MaxPlyModel
    ssExcl,       \* (ss + ply)->excludedMove is set
    ssNull,       \* (ss + ply)->currentMove == Move::null()
    nodes,        \* the worker's node counter
    doMoves,      \* pos.do_move calls on the worker's position
    ponderMoves,  \* those of them made by extract_ponder_from_tt
    doNulls,      \* pos.do_null_move calls
    posDepth,     \* moves made and not yet undone on the position
    nmpMinPly,    \* thisThread->nmpMinPly
    retVal,       \* the value returned by the invocation that just returned
    lastRet,      \* the record of the invocation that just returned
    lastStore,    \* the record of the staticEval just stored
    ttWrite,      \* the record of the table entry just written
    calls,        \* invocations of search and qsearch made below the root call
    sePc          \* "search" | "returned" | "done" | "off"

seVars == <<stack, ssEval, ssExcl, ssNull, nodes, doMoves, ponderMoves, doNulls,
            posDepth, nmpMinPly, retVal, lastRet, lastStore, ttWrite, calls, sePc>>

VARIABLES
    \* ---- iterative_deepening of one worker over its root moves (SpecRoot);
    \* ---- stop, abortedSearch, rootDepth and completedDepth are shared ----
    rootMoves,       \* the worker's rootMoves: records move, pv0, score, previousScore
    lastBestPV,      \* lastBestPV[0]
    lastBestScore,   \* lastBestScore
    window,          \* alpha, beta and delta of the aspiration loop
    rs,              \* the running search<Root>: alpha, bestValue, the moves tried
    interrupted,     \* search<Root> has returned because it saw threads.stop
    completedFront,  \* rootMoves[0] at the end of the last completed iteration
    emitted,         \* the move of the bestmove line (0: none)
    rootPc           \* "loop" | "search" | "sort" | "iterend" | "finish" | "done" | "off"

rtVars == <<rootMoves, lastBestPV, lastBestScore, window, rs, interrupted,
            completedFront, emitted, rootPc>>

\* the variables of the coordination part that SpecRoot leaves alone
rtCo == <<limits, hasMoves, ponder, stopOnPonderhit, callsCnt, mainPc, wpc,
          frontScore, frontExact, bestThread, bestmove, lastInfo, cmd, ev, ct>>

VARIABLES
    \* ---- one history cell under the gravity update (SpecHist) ----
    hD,        \* the limit D of the cell's table
    hEntry,    \* the cell: StatsEntry::entry
    hBonus,    \* the bonus handed to the last update of the cell
    hPc        \* "cell" | "off"

hiVars == <<hD, hEntry, hBonus, hPc>>

VARIABLES
    \* ---- attack sets of one occupancy (SpecBB) ----
    bbOcc,     \* the occupied squares
    bbPt,      \* the piece type whose attacks were computed ("none": not yet)
    bbKind,    \* "none" | "reference" | "lookup"
    bbAtt      \* per square: the attack set computed for bbPt

bbVars == <<bbOcc, bbPt, bbKind, bbAtt>>

VARIABLES
    \* ---- the line tables of one square (SpecLines) ----
    lnS1,       \* the square s1
    lnLine,     \* LineBB[s1], per square s2
    lnBetween,  \* BetweenBB[s1], per square s2
    lnPc        \* "zero" | "init" | "off"

lnVars == <<lnS1, lnLine, lnBetween, lnPc>>

VARIABLES
    \* ---- the command loop (SpecUci) ----
    cliArgc,    \* cli.argc
    uciCmd,     \* cmd: the command line of the last turn, as its tokens
    engine,     \* the engine: position, options, running search
    uciBefore,  \* the engine before the last turn of the loop
    uciOut,     \* what the last turn printed ("none": nothing)
    uciFresh,   \* nothing has happened since the last turn of the loop
    uciTurns,   \* turns of the loop taken
    uciPc       \* "loop" | "exit" | "off"

ucVars == <<cliArgc, uciCmd, engine, uciBefore, uciOut, uciFresh, uciTurns, uciPc>>

VARIABLES
    \* ---- the iterative-deepening loop run to its end (SpecDepth);
    \* ---- stop, rootDepth and completedDepth are shared ----
    idLimitDepth,  \* limits.depth (0: no depth limit)
    idMainThread,  \* the worker is the main thread
    idRan,         \* iterations of the loop begun
    idLastDepth,   \* rootDepth of the last iteration begun
    idPc           \* "loop" | "body" | "done" | "off"

idVars == <<idLimitDepth, idMainThread, idRan, idLastDepth, idPc>>

VARIABLES
    \* ---- step 8 of search over a tree of invocations (SpecNmp);
    \* ---- nmpMinPly is shared ----
    nmStack    \* the running invocations of search: ply, depth, cutNode, step

nmVars == <<nmStack>>

VARIABLES
    \* ---- the aspiration loop of one PV line (SpecAsp) ----
    asp        \* alpha, beta, delta, failedHighCnt, bestValue, adjustedDepth, step

asVars == <<asp>>

VARIABLES
    \* ---- the iterations and their MultiPV lines (SpecIter);
    \* ---- stop, rootDepth and completedDepth are shared ----
    iter       \* multiPV, limits.depth, pvIdx, the step, and what the iteration saw

itVars == <<iter>>

VARIABLES
    \* ---- the stores of check_time and the reads of another worker
    \* ---- (SpecFlags); stop and abortedSearch are shared ----
    flg        \* the step of check_time, the step of the worker, what it read

fgVars == <<flg>>

VARIABLES
    \* ---- TimeManagement::init (SpecTime) ----
    tmi        \* the limits and options handed in, mtg, timeLeft, the divisors used

tiVars == <<tmi>>

VARIABLES
    \* ---- the enumeration of the subsets of a mask in init_magics
    \* ---- (SpecRippler) ----
    crp        \* the mask, b, size, the subsets stored so far, the step

crVars == <<crp>>

\* the variables of the parts added to the search core
extVars == <<nmVars, asVars, itVars, fgVars, tiVars, crVars>>
aux1 == <<hiVars, bbVars, lnVars, ucVars, idVars>>
auxVars == <<aux1, extVars>>

vars == <<ttVars, coVars, seVars, rtVars, auxVars>>

\* the variables of the other specifications
coOthers == <<ttVars, seVars, rtVars, auxVars>>
ttOthers == <<coVars, seVars, rtVars, auxVars>>
seOthers == <<ttVars, coQuiet, rtVars, auxVars>>
rtOthers == <<ttVars, seVars, rtCo, auxVars>>
core == <<ttVars, coVars, seVars, rtVars>>
hiOthers == <<core, bbVars, lnVars, ucVars, idVars, extVars>>
bbOthers == <<core, hiVars, lnVars, ucVars, idVars, extVars>>
lnOthers == <<core, hiVars, bbVars, ucVars, idVars, extVars>>
ucOthers == <<core, hiVars, bbVars, lnVars, idVars, extVars>>
idOthers == <<ttVars, seVars, rtVars, rtCo, abortedSearch, hiVars, bbVars, lnVars, ucVars,
              extVars>>
seRest == <<stack, ssEval, ssExcl, ssNull, nodes, doMoves, ponderMoves, doNulls,
            posDepth, retVal, lastRet, lastStore, ttWrite, calls, sePc>>
nmOthers == <<ttVars, coVars, rtVars, aux1, seRest, asVars, itVars, fgVars, tiVars,
              crVars>>
asOthers == <<core, aux1, nmVars, itVars, fgVars, tiVars, crVars>>
itOthers == <<ttVars, seVars, rtVars, rtCo, abortedSearch, aux1, nmVars, asVars, fgVars,
              tiVars, crVars>>
fgOthers == <<ttVars, seVars, rtVars, rtCo, rootDepth, completedDepth, aux1, nmVars, asVars,
              itVars, tiVars, crVars>>
tiOthers == <<core, aux1, nmVars, asVars, itVars, fgVars, crVars>>
crOthers == <<core, aux1, nmVars, asVars, itVars, fgVars, tiVars>>

(***************************************************************************)
(* Program constants (src/src/types.h).                                    *)
(***************************************************************************)
MAX_PLY == 246
VALUE_ZERO == 0
VALUE_DRAW == 0
VALUE_NONE == 32002
VALUE_INFINITE == 32001
VALUE_MATE == 32000
VALUE_MATE_IN_MAX_PLY == VALUE_MATE - MAX_PLY
VALUE_MATED_IN_MAX_PLY == -VALUE_MATE_IN_MAX_PLY

(***************************************************************************)
(* Bounds of the model.                                                    *)
(***************************************************************************)
ValWin == 2     \* half-width of the value windows sampled around each landmark
PlyWin == 1     \* half-width of the ply windows sampled around each landmark
R60Win == 1     \* half-width of the rule-60 windows sampled around each landmark
NumHelpers == 1 \* worker threads besides the main worker
MaxIter == 2    \* iterations of iterative deepening explored per worker
ClockMax == 3   \* the clock readings explored are 0..ClockMax
MaxPolls == 2   \* check_time calls explored between two full checks
MaxNodes == 2   \* do_move calls explored in one root search
MaxMoves == 2   \* legal moves of a position
MaxNulls == 1   \* do_null_move calls explored in one root search
MaxCalls == 4   \* invocations of search and qsearch below one root call
NumRootMoves == 3   \* legal moves of the root position
MaxD == 3       \* the limits D of a history table explored are 1..MaxD
MaxBonus == 8   \* the bonuses handed to a history update are -MaxBonus..MaxBonus
MaxOcc == 2     \* occupied squares of the boards whose attack sets are computed
MaxCmds == 3    \* turns of the command loop explored
MaxDepthLimit == 3 \* the depth limits explored are 0 (none) .. MaxDepthLimit
MaxNmPly == 7      \* the deepest ply of the tree of SpecNmp
MaxNmMoves == 1    \* moves searched by one invocation of SpecNmp
MaxLines == 2      \* MultiPV lines of an iteration
MaxIterDepth == 3  \* the depths of go depth explored
MaxRetries == 2    \* fail lows and fail highs explored in one aspiration loop
MaxFlagIters == 3  \* iterations of the worker that reads the flags
RipplerBits == 6   \* the masks enumerated have their squares among the lowest RipplerBits

(***************************************************************************)
(* C++ integer helpers.                                                    *)
(***************************************************************************)
Abs(x) == IF x < 0 THEN -x ELSE x
Min(a, b) == IF a < b THEN a ELSE b
Max(a, b) == IF a > b THEN a ELSE b
\* std::clamp(v, lo, hi)
Clamp(v, lo, hi) == IF v < lo THEN lo ELSE IF v > hi THEN hi ELSE v
\* C++ integer division truncates toward zero (d > 0)
TruncDiv(n, d) == IF n >= 0 THEN n \div d ELSE -((-n) \div d)

Window(c, w) == (c - w)..(c + w)

(***************************************************************************)
(* types.h: value predicates and mate distances.                           *)
(***************************************************************************)
is_valid(v) == v # VALUE_NONE
is_win(v) == v >= VALUE_MATE_IN_MAX_PLY
is_loss(v) == v <= VALUE_MATED_IN_MAX_PLY
is_decisive(v) == is_win(v) \/ is_loss(v)
mate_in(ply) == VALUE_MATE - ply
mated_in(ply) == -VALUE_MATE + ply

(***************************************************************************)
(* search.cpp: value_to_tt / value_from_tt.                                *)
(***************************************************************************)
value_to_tt_signflip(v, ply) ==
    IF is_win(v) THEN v - ply ELSE IF is_loss(v) THEN v + ply ELSE v

value_to_tt(v, ply) ==
    IF is_win(v) THEN v + ply ELSE IF is_loss(v) THEN v - ply ELSE v

value_from_tt_noclamp(v, ply, r60c) ==
    IF ~is_valid(v) THEN VALUE_NONE
    ELSE IF is_win(v) THEN v - ply
    ELSE IF is_loss(v) THEN v + ply
    ELSE v

value_from_tt(v, ply, r60c) ==
    IF ~is_valid(v) THEN VALUE_NONE
    ELSE IF is_win(v)
         THEN (IF VALUE_MATE - v > 120 - r60c THEN VALUE_MATE_IN_MAX_PLY - 1 ELSE v - ply)
    ELSE IF is_loss(v)
         THEN (IF VALUE_MATE + v > 120 - r60c THEN VALUE_MATED_IN_MAX_PLY + 1 ELSE v + ply)
    ELSE v

(***************************************************************************)
(* SpecTT: one node saves a search value and probes the entry again.       *)
(* The inputs are sampled in windows around the landmarks of the value     *)
(* scale, of the ply range and of the rule-60 range.                       *)
(***************************************************************************)
TTValues ==
    UNION { Window(c, ValWin) \cap (-VALUE_INFINITE..VALUE_INFINITE) :
            c \in { 0, VALUE_MATE_IN_MAX_PLY, VALUE_MATED_IN_MAX_PLY,
                    VALUE_MATE - 120, -VALUE_MATE + 120,
                    VALUE_MATE, -VALUE_MATE } }

TTPlies == UNION { Window(c, PlyWin) \cap (0..MAX_PLY) : c \in {0, 120, MAX_PLY} }

TTRule60 == UNION { Window(c, R60Win) \cap (0..121) : c \in {0, 60, 120} }

TTStart ==
    /\ ttV \in TTValues
    /\ ttPly \in TTPlies
    /\ ttR60 \in TTRule60
    /\ ttEntry = VALUE_NONE
    /\ ttOut = VALUE_NONE
    /\ ttPc = "start"

\* ttWriter.write(posKey, value_to_tt(bestValue, ss->ply), ...)
TTSave ==
    /\ ttPc = "start"
    /\ ttEntry' = value_to_tt(ttV, ttPly)
    /\ ttPc' = "saved"
    /\ UNCHANGED <<ttV, ttPly, ttR60, ttOut>>
    /\ UNCHANGED ttOthers

\* ttWriter.write(posKey, VALUE_NONE, ..., unadjustedStaticEval, ...): only the
\* static evaluation is saved, the value field holds VALUE_NONE
TTSaveEvalOnly ==
    /\ ttPc = "start"
    /\ ttEntry' = VALUE_NONE
    /\ ttPc' = "evalonly"
    /\ UNCHANGED <<ttV, ttPly, ttR60, ttOut>>
    /\ UNCHANGED ttOthers

\* ttData.value = ttHit ? value_from_tt(ttData.value, ss->ply, pos.rule60_count())
TTProbe ==
    /\ ttPc \in {"saved", "evalonly"}
    /\ ttOut' = value_from_tt(ttEntry, ttPly, ttR60)
    /\ ttPc' = IF ttPc = "saved" THEN "roundtrip" ELSE "read"
    /\ UNCHANGED <<ttV, ttPly, ttR60, ttEntry>>
    /\ UNCHANGED ttOthers

(***************************************************************************)
(* Spec: one go command.  Worker 0 is the main worker, the others are the  *)
(* helpers.  The model fixes the MultiPV option at 1.                      *)
(***************************************************************************)
Workers == 0..NumHelpers
Helpers == 1..NumHelpers
Clock == 0..ClockMax

\* tm.maximum() and tm.optimum(), fixed by tm.init for the whole search
TmMaximum == ClockMax - 1
TmOptimum == ClockMax - 2

\* nodes of "go nodes N"
NodesLimit == 2048

\* callsCnt after a full check_time
CallsReset(l) == IF l.nodes # 0 THEN Min(512, TruncDiv(l.nodes, 1024)) ELSE 512

Go(p, i, m, n, mt, tm, d) ==
    [ponderMode |-> p, infinite |-> i, mate |-> m, nodes |-> n,
     movetime |-> mt, useTM |-> tm, depth |-> d]

\* the go commands explored (parse_limits accepts any combination of tokens)
GoCommands ==
    { Go(FALSE, TRUE,  0, 0, 0, FALSE, 0),            \* go infinite
      Go(TRUE,  FALSE, 0, 0, 0, TRUE,  0),            \* go ponder wtime .. btime ..
      Go(FALSE, FALSE, 0, 0, 0, TRUE,  0),            \* go wtime .. btime ..
      Go(FALSE, FALSE, 0, 0, TmMaximum, FALSE, 0),    \* go movetime ..
      Go(FALSE, FALSE, 0, NodesLimit, 0, FALSE, 0),   \* go nodes ..
      Go(FALSE, FALSE, 0, 0, 0, FALSE, 1),            \* go depth 1
      Go(FALSE, FALSE, 1, 0, 0, FALSE, 0),            \* go mate 1
      Go(TRUE,  FALSE, 1, 0, 0, FALSE, 0),            \* go ponder mate 1
      Go(FALSE, TRUE,  0, NodesLimit, 0, FALSE, 0) }  \* go infinite nodes ..

\* the scores a root search leaves on the first root move
RootValues == { 10, VALUE_MATE - 1, -VALUE_MATE + 2 }

NoCt == [elapsed |-> 0, nodes |-> 0]

\* the info lines: a worker's PV (onUpdateFull), the no-moves line
\* (onUpdateNoMoves), or none yet
InfoPV(w) == [kind |-> "pv", worker |-> w]
InfoNoMoves == [kind |-> "nomoves", worker |-> 0, depth |-> 0, score |-> -VALUE_MATE]
InfoNone == [kind |-> "none", worker |-> 0]

\* the record of the step taken
Ghost(name, c) == ev' = name /\ ct' = c

\* the state in which start_searching begins: start_thinking has reset stop,
\* abortedSearch, stopOnPonderhit and callsCnt, set ponder = limits.ponderMode,
\* and given every worker rootDepth = completedDepth = 0 and root moves with
\* score -VALUE_INFINITE
CoStart ==
    /\ limits \in GoCommands
    /\ hasMoves \in BOOLEAN
    /\ stop = FALSE
    /\ abortedSearch = FALSE
    /\ ponder = limits.ponderMode
    /\ stopOnPonderhit = FALSE
    /\ callsCnt = 0
    /\ mainPc = "start"
    /\ wpc = [w \in Workers |-> "idle"]
    /\ rootDepth = [w \in Workers |-> 0]
    /\ completedDepth = [w \in Workers |-> 0]
    /\ frontScore = -VALUE_INFINITE
    /\ frontExact = TRUE
    /\ bestThread = -1
    /\ bestmove = -1
    /\ lastInfo = InfoNone
    /\ cmd = FALSE
    /\ ev = "step"
    /\ ct = NoCt

MainStart_searchanyway ==
    /\ mainPc = "start"
    /\ IF ~hasMoves
       THEN /\ lastInfo' = InfoNoMoves
            /\ mainPc' = "id"
            /\ wpc' = [w \in Workers |-> "loop"]
       ELSE /\ lastInfo' = lastInfo
            /\ mainPc' = "id"
            /\ wpc' = [w \in Workers |-> "loop"]
    /\ Ghost("step", NoCt)
    /\ UNCHANGED <<limits, hasMoves, stop, abortedSearch, ponder, stopOnPonderhit,
                   callsCnt, rootDepth, completedDepth, frontScore, frontExact,
                   bestThread, bestmove, cmd>>
    /\ UNCHANGED coOthers

\* start_searching of the main worker up to the call of iterative_deepening
MainStart ==
    /\ mainPc = "start"
    /\ IF ~hasMoves
       THEN /\ lastInfo' = InfoNoMoves
            /\ mainPc' = "wait"
            /\ wpc' = wpc
       ELSE /\ lastInfo' = lastInfo
            /\ mainPc' = "id"
            /\ wpc' = [w \in Workers |-> "loop"]
    /\ Ghost("step", NoCt)
    /\ UNCHANGED <<limits, hasMoves, stop, abortedSearch, ponder, stopOnPonderhit,
                   callsCnt, rootDepth, completedDepth, frontScore, frontExact,
                   bestThread, bestmove, cmd>>
    /\ UNCHANGED coOthers

\* the test of the iterative deepening loop
IterBegin(w) ==
    /\ wpc[w] = "loop"
    /\ rootDepth[w] < MaxIter \/ stop
    /\ LET d == rootDepth[w] + 1
           go == /\ d < MAX_PLY
                 /\ ~stop
                 /\ ~(limits.depth # 0 /\ w = 0 /\ d > limits.depth)
       IN  /\ rootDepth' = [rootDepth EXCEPT ![w] = d]
           /\ wpc' = [wpc EXCEPT ![w] = IF go THEN "search" ELSE "done"]
           /\ mainPc' = IF w = 0 /\ ~go THEN "wait" ELSE mainPc
    /\ Ghost("step", NoCt)
    /\ UNCHANGED <<limits, hasMoves, stop, abortedSearch, ponder, stopOnPonderhit,
                   callsCnt, completedDepth, frontScore, frontExact,
                   bestThread, bestmove, lastInfo, cmd>>
    /\ UNCHANGED coOthers

\* one pass of the aspiration loop: search<Root>, the stable sort, the stop
\* test, the fail-low / fail-high handling and, on leaving the loop, the PV
\* output of the main worker
RootSearch(w) ==
    /\ wpc[w] = "search"
    /\ IF w = 0
       THEN \E outcome \in {"faillow", "failhigh", "inside"}, s \in RootValues,
               e \in BOOLEAN, keep \in BOOLEAN, uciLoss \in BOOLEAN, big \in BOOLEAN :
            LET leave == stop \/ outcome = "inside"
                \* nodes > 10000000: a fail low / fail high is reported as well
                report == IF leave THEN ~(abortedSearch /\ uciLoss) ELSE big
                \* a stopped search may leave the first root move as it was
                fs == IF stop /\ keep THEN frontScore ELSE s
                fe == IF stop /\ keep THEN frontExact
                      ELSE IF ~stop /\ outcome = "inside" THEN TRUE ELSE e
            IN  /\ ~stop => ~keep
                /\ leave => ~big
                /\ fe => (uciLoss = is_loss(fs))
                /\ frontScore' = fs
                /\ frontExact' = fe
                /\ wpc' = [wpc EXCEPT ![w] = IF leave THEN "iterend" ELSE "search"]
                /\ stopOnPonderhit' = IF ~stop /\ outcome = "faillow"
                                      THEN FALSE ELSE stopOnPonderhit
                /\ lastInfo' = IF report THEN InfoPV(0) ELSE lastInfo
       ELSE \E outcome \in {"fail", "inside"} :
            /\ wpc' = [wpc EXCEPT ![w] = IF stop \/ outcome = "inside"
                                         THEN "iterend" ELSE "search"]
            /\ UNCHANGED <<frontScore, frontExact, stopOnPonderhit, lastInfo>>
    /\ Ghost("step", NoCt)
    /\ UNCHANGED <<limits, hasMoves, stop, abortedSearch, ponder, callsCnt, mainPc,
                   rootDepth, completedDepth, bestThread, bestmove, cmd>>
    /\ UNCHANGED coOthers

\* "Have we found a mate in x?"
MateFound(l, score, exact) ==
    /\ l.mate # 0
    /\ exact
    /\ \/ score >= VALUE_MATE_IN_MAX_PLY /\ VALUE_MATE - score <= 2 * l.mate
       \/ /\ score # -VALUE_INFINITE
          /\ score <= VALUE_MATED_IN_MAX_PLY
          /\ VALUE_MATE + score <= 2 * l.mate

\* the end of an iteration: completedDepth, the replacement of an unproven
\* mated-in score of an aborted search, and for the main worker the mate
\* limit and the time management
IterEnd(w) ==
    /\ wpc[w] = "iterend"
    /\ wpc' = [wpc EXCEPT ![w] = "loop"]
    /\ completedDepth' = IF stop THEN completedDepth
                         ELSE [completedDepth EXCEPT ![w] = rootDepth[w]]
    /\ IF w # 0
       THEN UNCHANGED <<stop, stopOnPonderhit, frontScore, frontExact>>
       ELSE \E last \in RootValues \cup {-VALUE_INFINITE}, el \in Clock, effort \in BOOLEAN :
            LET restore == /\ abortedSearch
                           /\ frontScore # -VALUE_INFINITE
                           /\ is_loss(frontScore)
                \* on restore: rootMoves[0].score = rootMoves[0].uciScore = lastBestScore
                fs == IF restore THEN last ELSE frontScore
                fe == IF restore THEN TRUE ELSE frontExact
                stop1 == stop \/ MateFound(limits, fs, fe)
                tm == limits.useTM /\ ~stop1 /\ ~stopOnPonderhit
                totalTime == TmOptimum
                stop2 == /\ completedDepth'[0] >= 9
                         /\ effort
                         /\ el * 100 > totalTime * 73
                         /\ ~ponder
            IN  /\ ~restore => last = -VALUE_INFINITE
                /\ ~tm => (el = 0 /\ ~effort)
                /\ frontScore' = fs
                /\ frontExact' = fe
                /\ stop' = IF tm THEN stop1 \/ stop2 \/ (el > totalTime /\ ~ponder)
                           ELSE stop1
                /\ stopOnPonderhit' = IF tm /\ el > totalTime /\ ponder
                                      THEN TRUE ELSE stopOnPonderhit
    /\ Ghost("step", NoCt)
    /\ UNCHANGED <<limits, hasMoves, abortedSearch, ponder, callsCnt, mainPc,
                   rootDepth, bestThread, bestmove, lastInfo, cmd>>
    /\ UNCHANGED coOthers

\* check_time, called by the main worker at the entry of search(): the
\* countdown of callsCnt, then the full check
CheckTime_noponderguard ==
    /\ wpc[0] = "search"
    /\ callsCnt <= MaxPolls + 1
    /\ IF callsCnt - 1 > 0
       THEN /\ callsCnt' = callsCnt - 1
            /\ Ghost("check_time", NoCt)
            /\ UNCHANGED <<stop, abortedSearch>>
       ELSE \E el \in Clock, n \in {0, limits.nodes} :
            LET hit == /\ completedDepth[0] >= 1
                       /\ \/ limits.useTM /\ (el > TmMaximum \/ stopOnPonderhit)
                          \/ limits.movetime # 0 /\ el >= limits.movetime
                          \/ limits.nodes # 0 /\ n >= limits.nodes
            IN  /\ callsCnt' = CallsReset(limits)
                /\ stop' = IF hit THEN TRUE ELSE stop
                /\ abortedSearch' = IF hit THEN TRUE ELSE abortedSearch
                /\ Ghost(IF hit THEN "check_time_stop" ELSE "check_time",
                         IF hit THEN [elapsed |-> el, nodes |-> n] ELSE NoCt)
    /\ UNCHANGED <<limits, hasMoves, ponder, stopOnPonderhit, mainPc, wpc, rootDepth,
                   completedDepth, frontScore, frontExact, bestThread, bestmove,
                   lastInfo, cmd>>
    /\ UNCHANGED coOthers

CheckTime ==
    /\ wpc[0] = "search"
    /\ callsCnt <= MaxPolls + 1
    /\ IF callsCnt - 1 > 0
       THEN /\ callsCnt' = callsCnt - 1
            /\ Ghost("check_time", NoCt)
            /\ UNCHANGED <<stop, abortedSearch>>
       ELSE \E el \in Clock, n \in {0, limits.nodes} :
            LET hit == /\ ~ponder
                       /\ completedDepth[0] >= 1
                       /\ \/ limits.useTM /\ (el > TmMaximum \/ stopOnPonderhit)
                          \/ limits.movetime # 0 /\ el >= limits.movetime
                          \/ limits.nodes # 0 /\ n >= limits.nodes
            IN  /\ callsCnt' = CallsReset(limits)
                /\ stop' = IF hit THEN TRUE ELSE stop
                /\ abortedSearch' = IF hit THEN TRUE ELSE abortedSearch
                /\ Ghost(IF hit THEN "check_time_stop" ELSE "check_time",
                         IF hit THEN [elapsed |-> el, nodes |-> n] ELSE NoCt)
    /\ UNCHANGED <<limits, hasMoves, ponder, stopOnPonderhit, mainPc, wpc, rootDepth,
                   completedDepth, frontScore, frontExact, bestThread, bestmove,
                   lastInfo, cmd>>
    /\ UNCHANGED coOthers

\* a run of check_time calls that all return at the countdown
CheckTimeRun ==
    /\ wpc[0] = "search"
    /\ callsCnt > MaxPolls + 1
    /\ callsCnt' = MaxPolls + 1
    /\ Ghost("check_time", NoCt)
    /\ UNCHANGED <<limits, hasMoves, stop, abortedSearch, ponder, stopOnPonderhit,
                   mainPc, wpc, rootDepth, completedDepth, frontScore, frontExact,
                   bestThread, bestmove, lastInfo, cmd>>
    /\ UNCHANGED coOthers

\* the "stop" / "quit" command: Engine::stop sets threads.stop
UciStop ==
    /\ mainPc # "done"
    /\ ~stop
    /\ stop' = TRUE
    /\ cmd' = TRUE
    /\ Ghost("step", NoCt)
    /\ UNCHANGED <<limits, hasMoves, abortedSearch, ponder, stopOnPonderhit, callsCnt,
                   mainPc, wpc, rootDepth, completedDepth, frontScore, frontExact,
                   bestThread, bestmove, lastInfo>>
    /\ UNCHANGED coOthers

\* the "ponderhit" command: Engine::set_ponderhit(false) clears ponder
UciPonderhit ==
    /\ mainPc # "done"
    /\ ponder
    /\ ponder' = FALSE
    /\ cmd' = TRUE
    /\ Ghost("step", NoCt)
    /\ UNCHANGED <<limits, hasMoves, stop, abortedSearch, stopOnPonderhit, callsCnt,
                   mainPc, wpc, rootDepth, completedDepth, frontScore, frontExact,
                   bestThread, bestmove, lastInfo>>
    /\ UNCHANGED coOthers

\* the busy wait of start_searching is left, and threads.stop is set
MainStop ==
    /\ mainPc = "wait"
    /\ ~(~stop /\ (ponder \/ limits.infinite))
    /\ stop' = TRUE
    /\ mainPc' = "join"
    /\ Ghost("step", NoCt)
    /\ UNCHANGED <<limits, hasMoves, abortedSearch, ponder, stopOnPonderhit, callsCnt,
                   wpc, rootDepth, completedDepth, frontScore, frontExact,
                   bestThread, bestmove, lastInfo, cmd>>
    /\ UNCHANGED coOthers

\* threads.wait_for_search_finished() returns once no helper is searching
MainJoin ==
    /\ mainPc = "join"
    /\ \A h \in Helpers : wpc[h] \in {"idle", "done"}
    /\ mainPc' = "select"
    /\ Ghost("step", NoCt)
    /\ UNCHANGED <<limits, hasMoves, stop, abortedSearch, ponder, stopOnPonderhit,
                   callsCnt, wpc, rootDepth, completedDepth, frontScore, frontExact,
                   bestThread, bestmove, lastInfo, cmd>>
    /\ UNCHANGED coOthers

\* threads.get_best_thread(): some worker of the pool
get_best_thread == Workers

\* the choice of bestThread
MainSelect ==
    /\ mainPc = "select"
    /\ bestThread' \in IF limits.depth = 0 /\ hasMoves THEN get_best_thread ELSE {0}
    /\ mainPc' = "reemit"
    /\ Ghost("step", NoCt)
    /\ UNCHANGED <<limits, hasMoves, stop, abortedSearch, ponder, stopOnPonderhit,
                   callsCnt, wpc, rootDepth, completedDepth, frontScore, frontExact,
                   bestmove, lastInfo, cmd>>
    /\ UNCHANGED coOthers

MainReemitPV_skip ==
    /\ mainPc = "reemit"
    /\ lastInfo' = lastInfo
    /\ mainPc' = "emit"
    /\ Ghost("step", NoCt)
    /\ UNCHANGED <<limits, hasMoves, stop, abortedSearch, ponder, stopOnPonderhit,
                   callsCnt, wpc, rootDepth, completedDepth, frontScore, frontExact,
                   bestThread, bestmove, cmd>>
    /\ UNCHANGED coOthers

\* if (bestThread != this) main_manager()->pv(*bestThread, ...)
MainReemitPV ==
    /\ mainPc = "reemit"
    /\ lastInfo' = IF bestThread # 0 THEN InfoPV(bestThread) ELSE lastInfo
    /\ mainPc' = "emit"
    /\ Ghost("step", NoCt)
    /\ UNCHANGED <<limits, hasMoves, stop, abortedSearch, ponder, stopOnPonderhit,
                   callsCnt, wpc, rootDepth, completedDepth, frontScore, frontExact,
                   bestThread, bestmove, cmd>>
    /\ UNCHANGED coOthers

\* types.h: a move is (from << 7) + to; Move::none() and Move::null()
MoveNone == 0
MoveNull == 129
FILE_NB == 9
make_move(from, to) == from * 128 + to
from_sq(m) == (m \div 128) % 128
to_sq(m) == m % 128

\* UCIEngine::square and UCIEngine::move: the text of a move, a sequence of
\* characters
FileChars == <<"a", "b", "c", "d", "e", "f", "g", "h", "i">>
RankChars == <<"0", "1", "2", "3", "4", "5", "6", "7", "8", "9">>
square(s) == <<FileChars[(s % FILE_NB) + 1], RankChars[(s \div FILE_NB) + 1]>>

UciMove(m) ==
    IF m = MoveNone THEN <<"(", "n", "o", "n", "e", ")">>
    ELSE IF m = MoveNull THEN <<"0", "0", "0", "0">>
    ELSE square(from_sq(m)) \o square(to_sq(m))

\* rootMoves[0].pv[0] of the worker selected: Move::none(), placed by
\* start_searching when the root position has no legal move, or a legal move
FrontMove == IF hasMoves THEN make_move(19, 46) ELSE MoveNone

\* UCIEngine::on_bestmove: the line printed (empty: none printed yet)
on_bestmove == IF bestmove = -1 THEN <<>> ELSE <<"bestmove", " ">> \o UciMove(FrontMove)

\* updates.onBestmove(bestThread->rootMoves[0].pv[0], ponder)
MainBestmove ==
    /\ mainPc = "emit"
    /\ bestmove' = bestThread
    /\ mainPc' = "done"
    /\ Ghost("step", NoCt)
    /\ UNCHANGED <<limits, hasMoves, stop, abortedSearch, ponder, stopOnPonderhit,
                   callsCnt, wpc, rootDepth, completedDepth, frontScore, frontExact,
                   bestThread, lastInfo, cmd>>
    /\ UNCHANGED coOthers

(***************************************************************************)
(* evaluate.cpp: Eval::evaluate, from the outputs of the network, the      *)
(* optimism, the major material and the rule-60 counter.                   *)
(***************************************************************************)
Evaluate(in) ==
    LET nnue0 == in.psqt + in.positional
        nnueComplexity == Abs(in.psqt - in.positional)
        optimism1 == in.optimism + TruncDiv(in.optimism * nnueComplexity, 485)
        nnue1 == nnue0 - TruncDiv(nnue0 * nnueComplexity, 11683)
        mm == TruncDiv(in.major, 40)
        v0 == TruncDiv(nnue1 * (443 + mm) + optimism1 * (76 + mm), 503)
        v1 == v0 - TruncDiv(v0 * in.r60, 267)
    IN  Clamp(v1, VALUE_MATED_IN_MAX_PLY + 1, VALUE_MATE_IN_MAX_PLY - 1)

\* the positions evaluated: a quiet one, and two that the network scores
\* beyond the mate range
EvalInputs ==
    { [psqt |-> 40, positional |-> 25, optimism |-> 10, major |-> 400, r60 |-> 0],
      [psqt |-> 20000, positional |-> 21000, optimism |-> 99, major |-> 400, r60 |-> 0],
      [psqt |-> -21000, positional |-> -20000, optimism |-> -99, major |-> 400, r60 |-> 10] }

(***************************************************************************)
(* search.cpp: helpers.                                                    *)
(***************************************************************************)
to_corrected_static_eval_noclamp(v, cv) == v + TruncDiv(cv, 131072)

to_corrected_static_eval(v, cv) ==
    Clamp(v + TruncDiv(cv, 131072), VALUE_MATED_IN_MAX_PLY + 1, VALUE_MATE_IN_MAX_PLY - 1)

\* value_draw without the node-count dither
value_draw_nodither(n) == VALUE_DRAW

value_draw(n) == VALUE_DRAW - 1 + (IF (n \div 2) % 2 = 1 THEN 2 ELSE 0)

\* the values of correction_value explored
CorrectionValues == { 0, 100 * 131072 }

\* value fields of the table entries probed, and their eval fields
\* ("never assume anything about values stored in TT")
\* the table probes: a miss, and a hit with a value, an eval and a move
TTProbes ==
    { [hit |-> FALSE, value |-> VALUE_NONE, eval |-> VALUE_NONE, move |-> FALSE],
      [hit |-> TRUE, value |-> 30, eval |-> 32500, move |-> TRUE] }

\* the table probes of search: at a PV node the entry may also hold a value
\* so low that the singular search below it has a negative beta
SearchProbes(f) ==
    TTProbes \cup (IF f.nt = "PV"
                   THEN { [hit |-> TRUE, value |-> -300, eval |-> 32500, move |-> TRUE] }
                   ELSE {})

\* the network outputs of a position with the correction of its histories
EvalCases ==
    { <<in, cv>> \in EvalInputs \X CorrectionValues :
        (cv # 0) = (in.psqt > 1000) }

\* results of pos.rule_judge when it decides the game
RuleResults(ply) == { VALUE_DRAW, mate_in(ply), mated_in(ply) }

(***************************************************************************)
(* SpecSearch: the invocations of search and qsearch are the frames of     *)
(* stack.  What depends on the position, the move picker, the histories    *)
(* and the table is chosen by the environment.                             *)
(***************************************************************************)
MaxPlyModel == MaxNodes + 1

\* the root calls of iterative_deepening explored: the aspiration window, the
\* adjusted depth and whether the root position is in check
RootCalls ==
    { [window |-> <<-VALUE_INFINITE, VALUE_INFINITE>>, depth |-> 16, inCheck |-> FALSE],
      [window |-> <<-VALUE_INFINITE, VALUE_INFINITE>>, depth |-> 1, inCheck |-> TRUE],
      [window |-> <<-600, -580>>, depth |-> 16, inCheck |-> TRUE],
      [window |-> <<-600, -580>>, depth |-> 1, inCheck |-> FALSE] }

NoRet == [fn |-> "none", why |-> "none", dm |-> 0, um |-> 0, dn |-> 0, un |-> 0,
          posIn |-> 0, posOut |-> 0]

NoStore == [path |-> "none", val |-> 0, raw |-> VALUE_NONE]

NoWrite == [site |-> "none", value |-> VALUE_NONE]

\* ttWriter.write of the value v at ply
TTWrite(site, v, ply) == [site |-> site, value |-> value_to_tt(v, ply)]

Frame(fn, nt, ply, alpha, beta, depth, cutNode, inCheck, pd) ==
    [fn |-> fn, nt |-> nt, ply |-> ply, alpha |-> alpha, beta |-> beta,
     depth |-> depth, cutNode |-> cutNode, inCheck |-> inCheck,
     pc |-> IF fn = "search" THEN "entry" ELSE "qentry",
     excluded |-> FALSE, ttHit |-> FALSE, ttValue |-> VALUE_NONE, ttEval |-> VALUE_NONE,
     ttMove |-> FALSE,
     eval |-> VALUE_NONE, improving |-> FALSE,
     bestValue |-> -VALUE_INFINITE, value |-> 0, moveCount |-> 0, bestMove |-> FALSE,
     newDepth |-> 0, d |-> 0, sbeta |-> 0, childCheck |-> FALSE, tries |-> 0,
     dm |-> 0, um |-> 0, dn |-> 0, un |-> 0, posIn |-> pd]

Top == stack[Len(stack)]

Running(fn, pc) == sePc = "search" /\ Len(stack) > 0 /\ Top.fn = fn /\ Top.pc = pc

PvNode(f) == f.nt # "NonPV"

\* the invocation goes on in the same frame
Continue(f) ==
    /\ stack' = [stack EXCEPT ![Len(stack)] = f]
    /\ retVal' = VALUE_NONE
    /\ lastRet' = NoRet
    /\ calls' = calls
    /\ sePc' = sePc

\* the invocation calls search or qsearch
Call(f, child) ==
    /\ calls < MaxCalls
    /\ calls' = calls + 1
    /\ stack' = Append([stack EXCEPT ![Len(stack)] = f], child)
    /\ retVal' = VALUE_NONE
    /\ lastRet' = NoRet
    /\ sePc' = sePc

\* the invocation returns v with the position at depth pd
Return(f, v, why, pd) ==
    /\ stack' = SubSeq(stack, 1, Len(stack) - 1)
    /\ calls' = calls
    /\ retVal' = v
    /\ lastRet' = [fn |-> f.fn, why |-> why, dm |-> f.dm, um |-> f.um,
                   dn |-> f.dn, un |-> f.un, posIn |-> f.posIn, posOut |-> pd]
    /\ sePc' = IF Len(stack) = 1 THEN "returned" ELSE sePc

\* what a step leaves alone
SameStop == UNCHANGED stop /\ UNCHANGED seOthers
SamePos == UNCHANGED <<nodes, doMoves, ponderMoves, doNulls, posDepth>>
SameSs == UNCHANGED <<ssEval, ssExcl, ssNull>> /\ lastStore' = NoStore /\ ttWrite' = NoWrite

\* search, step 1: depth <= 0 goes to qsearch, otherwise the depth is capped
Search_Entry ==
    /\ Running("search", "entry")
    /\ LET f == Top
       IN  IF f.depth <= 0
           THEN Continue([f EXCEPT !.fn = "qsearch", !.pc = "qentry",
                                   !.nt = IF PvNode(f) THEN "PV" ELSE "NonPV",
                                   !.depth = 0, !.cutNode = FALSE])
           ELSE Continue([f EXCEPT !.depth = Min(f.depth, MAX_PLY - 1),
                                   !.pc = IF f.nt = "Root" THEN "tt" ELSE "rule"])
    /\ SamePos /\ SameSs /\ UNCHANGED nmpMinPly /\ SameStop

\* search, step 2: pos.rule_judge
Search_RuleJudge ==
    /\ Running("search", "rule")
    /\ LET f == Top
       IN  \/ \E result \in RuleResults(f.ply) :
                Return(f, IF result = VALUE_DRAW THEN value_draw(nodes) ELSE result,
                       "rule", posDepth)
           \/ Continue([f EXCEPT !.pc = "poll"])
           \/ Continue([f EXCEPT !.alpha = Max(f.alpha, VALUE_DRAW - 1), !.pc = "poll"])
           \/ Continue([f EXCEPT !.beta = Min(f.beta, VALUE_DRAW + 1), !.pc = "poll"])
    /\ SamePos /\ SameSs /\ UNCHANGED nmpMinPly /\ SameStop

Search_Poll_nowindowtest ==
    /\ Running("search", "poll")
    /\ LET f == Top
       IN  IF stop \/ f.ply >= MAX_PLY
           THEN \E in \in EvalInputs :
                Return(f, IF f.ply >= MAX_PLY /\ ~f.inCheck THEN Evaluate(in)
                          ELSE value_draw(nodes), "stop", posDepth)
           ELSE Continue([f EXCEPT !.alpha = Max(mated_in(f.ply), f.alpha),
                                   !.beta = Min(mate_in(f.ply + 1), f.beta),
                                   !.pc = "tt"])
    /\ SamePos /\ SameSs /\ UNCHANGED nmpMinPly /\ SameStop

\* search, the poll of threads.stop and step 3, mate distance pruning
Search_Poll ==
    /\ Running("search", "poll")
    /\ LET f == Top
           a == Max(mated_in(f.ply), f.alpha)
           b == Min(mate_in(f.ply + 1), f.beta)
       IN  IF stop \/ f.ply >= MAX_PLY
           THEN \E in \in EvalInputs :
                Return(f, IF f.ply >= MAX_PLY /\ ~f.inCheck THEN Evaluate(in)
                          ELSE value_draw(nodes), "stop", posDepth)
           ELSE IF a >= b
           THEN Return(f, a, "matedistance", posDepth)
           ELSE Continue([f EXCEPT !.alpha = a, !.beta = b, !.pc = "tt"])
    /\ SamePos /\ SameSs /\ UNCHANGED nmpMinPly /\ SameStop

\* search, step 4: the table probe and the early cutoff at non-PV nodes
Search_TT ==
    /\ Running("search", "tt")
    /\ \E pr \in SearchProbes(Top), cut \in BOOLEAN :
       LET f == Top
           tv == IF pr.hit THEN value_from_tt(pr.value, f.ply, 0) ELSE VALUE_NONE
           excl == ssExcl[f.ply]
       IN  /\ cut => (f.nt = "NonPV" /\ ~excl /\ is_valid(tv))
           /\ IF cut
              THEN Return(f, tv, "ttcutoff", posDepth)
              ELSE Continue([f EXCEPT !.excluded = excl, !.ttHit = pr.hit,
                                      !.ttValue = tv, !.ttEval = pr.eval,
                                      !.ttMove = (f.nt = "Root" \/ pr.move),
                                      !.pc = "eval"])
    /\ SamePos /\ SameSs /\ UNCHANGED nmpMinPly /\ SameStop

\* search, step 5: the static evaluation of the position
Search_StaticEval ==
    /\ Running("search", "eval")
    /\ LET f == Top
       IN  IF f.inCheck
           THEN /\ ssEval' = [ssEval EXCEPT ![f.ply] = ssEval[f.ply - 2]]
                /\ lastStore' = [path |-> "incheck", val |-> ssEval[f.ply - 2],
                                 raw |-> VALUE_NONE]
                /\ ttWrite' = NoWrite
                /\ Continue([f EXCEPT !.eval = ssEval[f.ply - 2], !.improving = FALSE,
                                      !.pc = "moves"])
           ELSE IF f.excluded
           THEN /\ UNCHANGED ssEval
                /\ lastStore' = NoStore
                /\ ttWrite' = NoWrite
                /\ Continue([f EXCEPT !.eval = ssEval[f.ply],
                                      !.improving = (ssEval[f.ply] > ssEval[f.ply - 2]),
                                      !.pc = "razor"])
           ELSE \E ec \in EvalCases, useTT \in BOOLEAN :
                LET fromTT == f.ttHit /\ is_valid(f.ttEval)
                    raw == IF fromTT THEN f.ttEval ELSE Evaluate(ec[1])
                    se == to_corrected_static_eval(raw, ec[2])
                IN  /\ useTT => (f.ttHit /\ is_valid(f.ttValue))
                    /\ ssEval' = [ssEval EXCEPT ![f.ply] = se]
                    /\ lastStore' = [path |-> IF fromTT THEN "tt" ELSE "evaluate",
                                     val |-> se,
                                     raw |-> IF fromTT THEN VALUE_NONE ELSE raw]
                    /\ ttWrite' = IF f.ttHit THEN NoWrite
                                  ELSE [site |-> "eval", value |-> VALUE_NONE]
                    /\ Continue([f EXCEPT !.eval = IF useTT THEN f.ttValue ELSE se,
                                          !.improving = (se > ssEval[f.ply - 2]),
                                          !.pc = "razor"])
    /\ SamePos /\ UNCHANGED <<ssExcl, ssNull, nmpMinPly>> /\ SameStop

\* search, step 6: razoring
Search_Razoring ==
    /\ Running("search", "razor")
    /\ LET f == Top
       IN  IF f.eval < f.alpha - 1373 - 252 * f.depth * f.depth
           THEN Call([f EXCEPT !.pc = "razor_ret"],
                     Frame("qsearch", "NonPV", f.ply, f.alpha - 1, f.alpha, 0, FALSE,
                           f.inCheck, posDepth))
           ELSE Continue([f EXCEPT !.pc = "futility"])
    /\ SamePos /\ SameSs /\ UNCHANGED nmpMinPly /\ SameStop

Search_RazoringRet ==
    /\ Running("search", "razor_ret")
    /\ LET f == Top
           value == retVal
       IN  IF value < f.alpha /\ ~is_decisive(value)
           THEN Return(f, value, "razoring", posDepth)
           ELSE Continue([f EXCEPT !.pc = "futility"])
    /\ SamePos /\ SameSs /\ UNCHANGED nmpMinPly /\ SameStop

\* search, step 7: futility pruning of the child node
Search_Futility ==
    /\ Running("search", "futility")
    /\ \E margin \in BOOLEAN :
       LET f == Top
       IN  /\ margin => /\ f.depth < 16
                        /\ f.eval >= f.beta
                        /\ ~is_loss(f.beta)
                        /\ ~is_win(f.eval)
           /\ IF margin
              THEN Return(f, f.beta + TruncDiv(f.eval - f.beta, 3), "futility", posDepth)
              ELSE Continue([f EXCEPT
                      !.improving = (f.improving \/ ssEval[f.ply] >= f.beta + 113),
                      !.pc = "null"])
    /\ SamePos /\ SameSs /\ UNCHANGED nmpMinPly /\ SameStop

\* the null move reduction
NullR(f) == Min(TruncDiv(f.eval - f.beta, 254), 5) + (f.depth \div 3) + 5

\* search, step 8: the null move
Search_NullMove ==
    /\ Running("search", "null")
    /\ \E material \in BOOLEAN :
       LET f == Top
           try == /\ f.cutNode
                  /\ ~ssNull[f.ply - 1]
                  /\ f.eval >= f.beta
                  /\ ssEval[f.ply] >= f.beta - 8 * f.depth + 189
                  /\ ~f.excluded
                  /\ material
                  /\ f.ply >= nmpMinPly
                  /\ ~is_loss(f.beta)
       IN  /\ material => doNulls < MaxNulls
           /\ IF try
              THEN /\ ssNull' = [ssNull EXCEPT ![f.ply] = TRUE]
                   /\ doNulls' = doNulls + 1
                   /\ posDepth' = posDepth + 1
                   /\ Call([f EXCEPT !.pc = "null_ret", !.dn = f.dn + 1],
                           Frame("search", "NonPV", f.ply + 1, -f.beta, -f.beta + 1,
                                 f.depth - NullR(f), FALSE, FALSE, posDepth + 1))
              ELSE /\ UNCHANGED <<ssNull, doNulls, posDepth>>
                   /\ Continue([f EXCEPT !.pc = "iir"])
    /\ UNCHANGED <<nodes, doMoves, ponderMoves, ssEval, ssExcl, nmpMinPly>>
    /\ lastStore' = NoStore
    /\ ttWrite' = NoWrite
    /\ SameStop

\* the null move is taken back; a verification search may follow
Search_NullRet ==
    /\ Running("search", "null_ret")
    /\ LET f == [Top EXCEPT !.un = Top.un + 1]
           nullValue == -retVal
       IN  /\ posDepth' = posDepth - 1
           /\ IF nullValue >= f.beta /\ ~is_win(nullValue)
              THEN IF nmpMinPly # 0 \/ f.depth < 15
                   THEN /\ Return(f, nullValue, "nullmove", posDepth - 1)
                        /\ UNCHANGED nmpMinPly
                   ELSE /\ nmpMinPly' = f.ply + TruncDiv(3 * (f.depth - NullR(f)), 4)
                        /\ Call([f EXCEPT !.pc = "verify_ret", !.value = nullValue],
                                Frame("search", "NonPV", f.ply, f.beta - 1, f.beta,
                                      f.depth - NullR(f), FALSE, f.inCheck, posDepth - 1))
              ELSE /\ Continue([f EXCEPT !.pc = "iir"])
                   /\ UNCHANGED nmpMinPly
    /\ UNCHANGED <<nodes, doMoves, ponderMoves, doNulls>>
    /\ SameSs /\ SameStop

Search_VerifyRet ==
    /\ Running("search", "verify_ret")
    /\ LET f == Top
           v == retVal
       IN  /\ nmpMinPly' = 0
           /\ IF v >= f.beta
              THEN Return(f, f.value, "nullmove", posDepth)
              ELSE Continue([f EXCEPT !.pc = "iir"])
    /\ SamePos /\ SameSs /\ SameStop

\* search, step 9: internal iterative reductions
Search_IIR ==
    /\ Running("search", "iir")
    /\ \E upper \in BOOLEAN :
       LET f == Top
           depth1 == IF PvNode(f) /\ ~f.ttMove THEN f.depth - 2 ELSE f.depth
           reduce == f.cutNode /\ depth1 >= 7 /\ (~f.ttMove \/ upper)
           depth2 == IF reduce THEN depth1 - 1 - (IF f.ttMove THEN 0 ELSE 1) ELSE depth1
       IN  /\ upper => (f.cutNode /\ depth1 >= 7 /\ f.ttMove)
           /\ IF depth1 <= 0
              THEN Continue([f EXCEPT !.fn = "qsearch", !.nt = "PV", !.pc = "qentry",
                                      !.depth = 0, !.cutNode = FALSE])
              ELSE Continue([f EXCEPT !.depth = depth2, !.pc = "probcut"])
    /\ SamePos /\ SameSs /\ UNCHANGED nmpMinPly /\ SameStop

ProbCutBeta(f) == f.beta + 234 - (IF f.improving THEN 66 ELSE 0)

\* search, step 10: the test of ProbCut
Search_ProbCut ==
    /\ Running("search", "probcut")
    /\ \E table \in BOOLEAN :
       LET f == Top
           try == f.nt = "NonPV" /\ f.depth > 4 /\ ~is_decisive(f.beta) /\ table
       IN  /\ table => (f.nt = "NonPV" /\ f.depth > 4 /\ ~is_decisive(f.beta))
           /\ Continue([f EXCEPT !.pc = IF try THEN "probcut_loop" ELSE "moves",
                                 !.tries = 0])
    /\ SamePos /\ SameSs /\ UNCHANGED nmpMinPly /\ SameStop

\* the ProbCut loop: the next capture is made and verified with qsearch
Search_ProbCutNext ==
    /\ Running("search", "probcut_loop")
    /\ LET f == Top
       IN  \/ /\ Continue([f EXCEPT !.pc = "moves", !.tries = 0])
              /\ SamePos
              /\ UNCHANGED ssNull
           \/ /\ f.tries < MaxMoves
              /\ nodes < MaxNodes
              /\ \E givesCheck \in BOOLEAN :
                 Call([f EXCEPT !.pc = "probcut_q_ret", !.tries = f.tries + 1,
                                !.childCheck = givesCheck, !.dm = f.dm + 1],
                      Frame("qsearch", "NonPV", f.ply + 1, -ProbCutBeta(f),
                            -ProbCutBeta(f) + 1, 0, FALSE, givesCheck, posDepth + 1))
              /\ ssNull' = [ssNull EXCEPT ![f.ply] = FALSE]
              /\ nodes' = nodes + 1
              /\ doMoves' = doMoves + 1
              /\ posDepth' = posDepth + 1
              /\ UNCHANGED <<ponderMoves, doNulls>>
    /\ UNCHANGED <<ssEval, ssExcl, nmpMinPly>>
    /\ lastStore' = NoStore
    /\ ttWrite' = NoWrite
    /\ SameStop

\* the qsearch held: the regular search; otherwise the capture is taken back
Search_ProbCutQRet ==
    /\ Running("search", "probcut_q_ret")
    /\ LET f == Top
           value == -retVal
       IN  IF value >= ProbCutBeta(f)
           THEN /\ Call([f EXCEPT !.pc = "probcut_s_ret"],
                        Frame("search", "NonPV", f.ply + 1, -ProbCutBeta(f),
                              -ProbCutBeta(f) + 1, f.depth - 4, ~f.cutNode,
                              f.childCheck, posDepth))
                /\ UNCHANGED posDepth
           ELSE /\ Continue([f EXCEPT !.pc = "probcut_loop", !.um = f.um + 1])
                /\ posDepth' = posDepth - 1
    /\ UNCHANGED <<nodes, doMoves, ponderMoves, doNulls, nmpMinPly>>
    /\ SameSs /\ SameStop

Search_ProbCutSRet ==
    /\ Running("search", "probcut_s_ret")
    /\ LET f == [Top EXCEPT !.um = Top.um + 1]
           value == -retVal
       IN  /\ posDepth' = posDepth - 1
           /\ IF value >= ProbCutBeta(f)
              THEN /\ ttWrite' = TTWrite("probcut", value, f.ply)
                   /\ Return(f, IF is_decisive(value) THEN value
                                ELSE value - (ProbCutBeta(f) - f.beta),
                             "probcut", posDepth - 1)
              ELSE /\ ttWrite' = NoWrite
                   /\ Continue([f EXCEPT !.pc = "probcut_loop"])
    /\ UNCHANGED <<nodes, doMoves, ponderMoves, doNulls, nmpMinPly>>
    /\ UNCHANGED <<ssEval, ssExcl, ssNull>> /\ lastStore' = NoStore
    /\ SameStop

\* search, step 11: the small ProbCut; the move loop of the model reads
\* ss->staticEval and the table move and value, not the locals eval and
\* improving nor the rest of the table entry, which the frame drops here
Search_Step11 ==
    /\ Running("search", "moves")
    /\ \E table \in BOOLEAN :
       LET f == Top
           probCutBeta == f.beta + 441
           cut == /\ table
                  /\ is_valid(f.ttValue)
                  /\ f.ttValue >= probCutBeta
                  /\ ~is_decisive(f.beta)
                  /\ ~is_decisive(f.ttValue)
       IN  /\ table => cut
           /\ IF cut
              THEN Return(f, probCutBeta, "probcut", posDepth)
              ELSE Continue([f EXCEPT !.pc = "next", !.eval = VALUE_NONE,
                                      !.improving = FALSE, !.ttHit = FALSE,
                                      !.ttEval = VALUE_NONE])
    /\ SamePos /\ SameSs /\ UNCHANGED nmpMinPly /\ SameStop

\* the reductions of late moves explored, in plies
Reductions == { -1, 2 }

\* the PV search below a move (newDepth is at least 1 for the table move)
PvChild(f, pd) ==
    Frame("search", "PV", f.ply + 1, -f.beta, -f.alpha, f.newDepth, FALSE,
          f.childCheck, pd)

\* search, step 15: the move is made (the node counter, do_move) and the
\* first search below it is called: late-move reduction, full depth with a
\* zero window, or the PV search
MakeMove(f) ==
    /\ nodes < MaxNodes
    /\ nodes' = nodes + 1
    /\ doMoves' = doMoves + 1
    /\ posDepth' = posDepth + 1
    /\ ssNull' = [ssNull EXCEPT ![f.ply] = FALSE]
    /\ \E givesCheck \in BOOLEAN, red \in Reductions \cup {0}, big \in BOOLEAN,
          isTT \in BOOLEAN :
       LET g == [f EXCEPT !.childCheck = givesCheck, !.dm = f.dm + 1]
           allNode == ~(PvNode(f) \/ f.cutNode)
           lmr == f.depth >= 2 /\ f.moveCount > 1
           zero == ~lmr /\ (~PvNode(f) \/ f.moveCount > 1)
           d == Max(1, Min(f.newDepth - red,
                           f.newDepth + (IF allNode THEN 0 ELSE 1)
                                      + (IF PvNode(f) /\ ~f.bestMove THEN 1 ELSE 0)))
           h == [g EXCEPT !.newDepth = IF isTT THEN Max(f.newDepth, 1) ELSE f.newDepth]
       IN  /\ lmr = (red # 0)
           /\ ~zero => ~big
           /\ isTT => (~lmr /\ ~zero /\ f.ttMove /\ f.ply <= rootDepth[0] * 2
                        /\ f.newDepth < 1)
           /\ IF lmr
              THEN Call([g EXCEPT !.pc = "lmr_ret", !.d = d],
                        Frame("search", "NonPV", f.ply + 1, -(f.alpha + 1), -f.alpha, d,
                              TRUE, givesCheck, posDepth + 1))
              ELSE IF zero
              THEN Call([g EXCEPT !.pc = "full_ret"],
                        Frame("search", "NonPV", f.ply + 1, -(f.alpha + 1), -f.alpha,
                              f.newDepth - (IF big THEN 1 ELSE 0), ~f.cutNode,
                              givesCheck, posDepth + 1))
              ELSE Call([h EXCEPT !.pc = "pv_ret"], PvChild(h, posDepth + 1))

\* search, steps 12-14: the next move of the move picker; it is pruned, or
\* the singular search is run for it, or it is made
Search_NextMove ==
    /\ Running("search", "next")
    /\ LET f == Top
           g == [f EXCEPT !.moveCount = f.moveCount + 1, !.newDepth = f.depth - 1]
       IN  \/ \* no move is left
              /\ Continue([f EXCEPT !.pc = "after"])
              /\ SamePos
              /\ UNCHANGED <<ssExcl, ssNull>>
           \/ \* the move is pruned
              /\ f.moveCount < MaxMoves
              /\ f.nt # "Root"
              /\ ~is_loss(f.bestValue)
              /\ \E quiet \in BOOLEAN, lmrDepth \in {0, 1} :
                 LET futilityValue ==
                         ssEval[f.ply] + (IF f.bestValue < ssEval[f.ply] - 45
                                          THEN 215 ELSE 96) + 120 * lmrDepth
                     raise == /\ quiet
                              /\ f.bestValue <= futilityValue
                              /\ ~is_decisive(f.bestValue)
                              /\ ~is_win(futilityValue)
                 IN  /\ quiet => (~f.inCheck /\ futilityValue <= f.alpha)
                     /\ ~quiet => lmrDepth = 0
                     /\ Continue([g EXCEPT !.bestValue = IF raise THEN futilityValue
                                                         ELSE f.bestValue])
              /\ SamePos
              /\ UNCHANGED <<ssExcl, ssNull>>
           \/ \* the singular search of the table move
              /\ f.moveCount < MaxMoves
              /\ f.nt # "Root"
              /\ f.ttMove
              /\ ~f.excluded
              /\ f.ply < rootDepth[0] * 2
              /\ is_valid(f.ttValue)
              /\ ~is_decisive(f.ttValue)
              /\ \E ttPv \in BOOLEAN :
                 LET singularBeta ==
                         f.ttValue - TruncDiv((41 + (IF ttPv /\ ~PvNode(f) THEN 73 ELSE 0))
                                              * f.depth, 76)
                     singularDepth == g.newDepth \div 2
                 IN  /\ f.depth >= 4 + (IF ttPv THEN 1 ELSE 0)
                     /\ Call([g EXCEPT !.pc = "singular_ret", !.sbeta = singularBeta],
                             Frame("search", "NonPV", f.ply, singularBeta - 1,
                                   singularBeta, singularDepth, f.cutNode, f.inCheck,
                                   posDepth))
              /\ ssExcl' = [ssExcl EXCEPT ![f.ply] = TRUE]
              /\ SamePos
              /\ UNCHANGED ssNull
           \/ \* the move is made
              /\ f.moveCount < MaxMoves
              /\ \E extension \in {0, 1} :
                 /\ extension = 1 => f.nt = "PV"
                 /\ MakeMove([g EXCEPT !.newDepth = g.newDepth + extension])
              /\ UNCHANGED <<ponderMoves, doNulls, ssExcl>>
    /\ UNCHANGED <<ssEval, nmpMinPly>>
    /\ lastStore' = NoStore
    /\ ttWrite' = NoWrite
    /\ SameStop

Search_SingularRet_noreset ==
    /\ Running("search", "singular_ret")
    /\ UNCHANGED ssExcl
    /\ \E ttCapture \in BOOLEAN, ttPv \in BOOLEAN :
       LET f == Top
           value == retVal
           pv == IF PvNode(f) THEN 1 ELSE 0
           doubleMargin == 246 * pv - (IF ttCapture THEN 0 ELSE 108)
           tripleMargin == 132 + 334 * pv - (IF ttCapture THEN 0 ELSE 279)
                           + (IF ttPv THEN 68 ELSE 0)
           extension ==
               IF value < f.sbeta
               THEN 1 + (IF value < f.sbeta - doubleMargin THEN 1 ELSE 0)
                      + (IF value < f.sbeta - tripleMargin THEN 1 ELSE 0)
               ELSE IF f.ttValue >= f.beta THEN -3
               ELSE IF f.cutNode THEN -2
               ELSE 0
           depth1 == IF value < f.sbeta /\ ~PvNode(f) /\ f.depth < 20
                     THEN f.depth + 1 ELSE f.depth
       IN  IF value >= f.sbeta /\ value >= f.beta /\ ~is_decisive(value)
           THEN /\ ~ttCapture /\ ~ttPv
                /\ Return(f, value, "multicut", posDepth)
                /\ SamePos
                /\ UNCHANGED ssNull
           ELSE /\ MakeMove([f EXCEPT !.newDepth = f.newDepth + extension,
                                      !.depth = depth1])
                /\ UNCHANGED <<ponderMoves, doNulls>>
    /\ UNCHANGED <<ssEval, nmpMinPly>>
    /\ lastStore' = NoStore
    /\ ttWrite' = NoWrite
    /\ SameStop

\* the singular search has returned: extension, multi-cut, or negative
\* extension; then the move is made
Search_SingularRet ==
    /\ Running("search", "singular_ret")
    /\ ssExcl' = [ssExcl EXCEPT ![Top.ply] = FALSE]
    /\ \E ttCapture \in BOOLEAN, ttPv \in BOOLEAN :
       LET f == Top
           value == retVal
           pv == IF PvNode(f) THEN 1 ELSE 0
           doubleMargin == 246 * pv - (IF ttCapture THEN 0 ELSE 108)
           tripleMargin == 132 + 334 * pv - (IF ttCapture THEN 0 ELSE 279)
                           + (IF ttPv THEN 68 ELSE 0)
           extension ==
               IF value < f.sbeta
               THEN 1 + (IF value < f.sbeta - doubleMargin THEN 1 ELSE 0)
                      + (IF value < f.sbeta - tripleMargin THEN 1 ELSE 0)
               ELSE IF f.ttValue >= f.beta THEN -3
               ELSE IF f.cutNode THEN -2
               ELSE 0
           depth1 == IF value < f.sbeta /\ ~PvNode(f) /\ f.depth < 20
                     THEN f.depth + 1 ELSE f.depth
       IN  IF value >= f.sbeta /\ value >= f.beta /\ ~is_decisive(value)
           THEN /\ ~ttCapture /\ ~ttPv
                /\ Return(f, value, "multicut", posDepth)
                /\ SamePos
                /\ UNCHANGED ssNull
           ELSE /\ MakeMove([f EXCEPT !.newDepth = f.newDepth + extension,
                                      !.depth = depth1])
                /\ UNCHANGED <<ponderMoves, doNulls>>
    /\ UNCHANGED <<ssEval, nmpMinPly>>
    /\ lastStore' = NoStore
    /\ ttWrite' = NoWrite
    /\ SameStop

UndoMove_stopfirst(f) ==
    IF stop
    THEN /\ Return(f, VALUE_ZERO, "stop", posDepth)
         /\ UNCHANGED posDepth
    ELSE /\ posDepth' = posDepth - 1
         /\ Continue([f EXCEPT !.um = f.um + 1, !.pc = "next"])

\* search, steps 18-19: undo_move, the test of threads.stop, and the update
\* of bestValue, bestMove and alpha with the value of the move
UndoMove(f) ==
    /\ posDepth' = posDepth - 1
    /\ LET g == [f EXCEPT !.um = f.um + 1]
           value == f.value
       IN  IF stop
           THEN Return(g, VALUE_ZERO, "stop", posDepth - 1)
           ELSE \E inc \in {0, 1} :
                /\ inc = 1 => (value = f.bestValue /\ ~is_win(Abs(value) + 1))
                /\ IF value + inc > f.bestValue
                   THEN IF value + inc > f.alpha
                        THEN IF value >= f.beta
                             THEN Continue([g EXCEPT !.bestValue = value,
                                                     !.bestMove = TRUE, !.pc = "after"])
                             ELSE Continue([g EXCEPT
                                     !.bestValue = value, !.bestMove = TRUE,
                                     !.depth = IF f.depth > 2 /\ f.depth < 10
                                                  /\ ~is_decisive(value)
                                               THEN f.depth - 2 ELSE f.depth,
                                     !.alpha = value, !.pc = "next"])
                        ELSE Continue([g EXCEPT !.bestValue = value, !.pc = "next"])
                   ELSE Continue([g EXCEPT !.pc = "next"])

\* after a zero-window search: the PV search at PV nodes, or the move is
\* taken back
AfterZeroWindow(f) ==
    IF PvNode(f) /\ (f.moveCount = 1 \/ f.value > f.alpha)
    THEN /\ \E isTT \in BOOLEAN :
            LET h == [f EXCEPT !.newDepth = IF isTT THEN Max(f.newDepth, 1)
                                            ELSE f.newDepth]
            IN  /\ isTT => (f.ttMove /\ f.ply <= rootDepth[0] * 2 /\ f.newDepth < 1)
                /\ Call([h EXCEPT !.pc = "pv_ret"], PvChild(h, posDepth))
         /\ UNCHANGED posDepth
    ELSE UndoMove(f)

\* search, step 16: the reduced search has returned
Search_LmrRet ==
    /\ Running("search", "lmr_ret")
    /\ LET f == [Top EXCEPT !.value = -retVal]
           deeper == IF f.value > f.bestValue + 58 + 2 * f.newDepth THEN 1 ELSE 0
           shallower == IF f.value < f.bestValue + 8 THEN 1 ELSE 0
           nd == f.newDepth + deeper - shallower
       IN  IF f.value > f.alpha /\ f.d < f.newDepth
           THEN IF nd > f.d
                THEN /\ Call([f EXCEPT !.newDepth = nd, !.pc = "full_ret"],
                             Frame("search", "NonPV", f.ply + 1, -(f.alpha + 1), -f.alpha,
                                   nd, ~f.cutNode, f.childCheck, posDepth))
                     /\ UNCHANGED posDepth
                ELSE AfterZeroWindow([f EXCEPT !.newDepth = nd])
           ELSE AfterZeroWindow(f)
    /\ UNCHANGED <<nodes, doMoves, ponderMoves, doNulls, nmpMinPly>>
    /\ SameSs /\ SameStop

\* search, step 17: the full-depth zero-window search has returned
Search_FullRet ==
    /\ Running("search", "full_ret")
    /\ AfterZeroWindow([Top EXCEPT !.value = -retVal])
    /\ UNCHANGED <<nodes, doMoves, ponderMoves, doNulls, nmpMinPly>>
    /\ SameSs /\ SameStop

\* the PV search has returned
Search_PvRet ==
    /\ Running("search", "pv_ret")
    /\ UndoMove([Top EXCEPT !.value = -retVal])
    /\ UNCHANGED <<nodes, doMoves, ponderMoves, doNulls, nmpMinPly>>
    /\ SameSs /\ SameStop

\* steps 20-21 without the test of moveCount
Search_After_nomovetest ==
    /\ Running("search", "after")
    /\ LET f == Top
           bv1 == IF /\ ~PvNode(f)
                     /\ f.bestValue >= f.beta
                     /\ ~is_decisive(f.bestValue)
                     /\ ~is_decisive(f.beta)
                     /\ ~is_decisive(f.alpha)
                  THEN TruncDiv(f.bestValue * f.depth + f.beta, f.depth + 1)
                  ELSE f.bestValue
           bv2 == bv1
           why == IF f.moveCount = 0 THEN "nomoves"
                  ELSE IF bv2 >= f.beta THEN "cutoff" ELSE "normal"
       IN  /\ Return(f, bv2, why, posDepth)
           /\ ttWrite' = IF f.excluded THEN NoWrite ELSE TTWrite("search", bv2, f.ply)
    /\ SamePos /\ UNCHANGED <<ssEval, ssExcl, ssNull>> /\ lastStore' = NoStore
    /\ UNCHANGED nmpMinPly /\ SameStop

\* search, steps 20-21: after the move loop
Search_After ==
    /\ Running("search", "after")
    /\ LET f == Top
           bv1 == IF /\ ~PvNode(f)
                     /\ f.bestValue >= f.beta
                     /\ ~is_decisive(f.bestValue)
                     /\ ~is_decisive(f.beta)
                     /\ ~is_decisive(f.alpha)
                  THEN TruncDiv(f.bestValue * f.depth + f.beta, f.depth + 1)
                  ELSE f.bestValue
           bv2 == IF f.moveCount = 0
                  THEN (IF f.excluded THEN f.alpha ELSE mated_in(f.ply))
                  ELSE bv1
           why == IF f.moveCount = 0 THEN "nomoves"
                  ELSE IF bv2 >= f.beta THEN "cutoff" ELSE "normal"
       IN  /\ Return(f, bv2, why, posDepth)
           /\ ttWrite' = IF f.excluded THEN NoWrite ELSE TTWrite("search", bv2, f.ply)
    /\ SamePos /\ UNCHANGED <<ssEval, ssExcl, ssNull>> /\ lastStore' = NoStore
    /\ UNCHANGED nmpMinPly /\ SameStop

\* qsearch, steps 1-2: pos.rule_judge
QSearch_Entry ==
    /\ Running("qsearch", "qentry")
    /\ LET f == Top
       IN  \/ \E result \in RuleResults(f.ply) : Return(f, result, "rule", posDepth)
           \/ f.ply >= MAX_PLY /\ \E in \in EvalInputs :
                Return(f, IF ~f.inCheck THEN Evaluate(in) ELSE VALUE_DRAW, "maxply",
                       posDepth)
           \/ f.ply < MAX_PLY /\ Continue([f EXCEPT !.pc = "qtt"])
           \/ \E win \in BOOLEAN :
              LET a == IF win THEN Max(f.alpha, VALUE_DRAW) ELSE f.alpha
                  b == IF win THEN f.beta ELSE Min(f.beta, VALUE_DRAW)
              IN  IF a >= b
                  THEN Return(f, a, "rule", posDepth)
                  ELSE /\ f.ply < MAX_PLY
                       /\ Continue([f EXCEPT !.alpha = a, !.beta = b, !.pc = "qtt"])
    /\ SamePos /\ SameSs /\ UNCHANGED nmpMinPly /\ SameStop

\* qsearch, steps 3-4: the table probe, the static evaluation and stand pat
QSearch_Eval ==
    /\ Running("qsearch", "qtt")
    /\ \E pr \in TTProbes, cut \in BOOLEAN, ec \in EvalCases, useTT \in BOOLEAN :
       LET f == Top
           hit == pr.hit
           te == pr.eval
           in == ec[1]
           cv == ec[2]
           tv == IF hit THEN value_from_tt(pr.value, f.ply, 0) ELSE VALUE_NONE
           fromTT == hit /\ is_valid(te)
           fromNull == ~hit /\ ssNull[f.ply - 1]
           raw == IF fromTT THEN te
                  ELSE IF fromNull THEN -ssEval[f.ply - 1]
                  ELSE Evaluate(in)
           se == to_corrected_static_eval(raw, cv)
           bv == IF useTT THEN tv ELSE se
       IN  /\ cut => (f.nt = "NonPV" /\ is_valid(tv))
           /\ useTT => (~cut /\ ~f.inCheck /\ hit /\ is_valid(tv))
           /\ IF cut
              THEN /\ Return(f, tv, "ttcutoff", posDepth)
                   /\ UNCHANGED ssEval
                   /\ lastStore' = NoStore
                   /\ ttWrite' = NoWrite
              ELSE IF f.inCheck
              THEN /\ Continue([f EXCEPT !.ttHit = hit, !.ttValue = tv,
                                         !.bestValue = -VALUE_INFINITE, !.pc = "qnext"])
                   /\ UNCHANGED ssEval
                   /\ lastStore' = NoStore
                   /\ ttWrite' = NoWrite
              ELSE /\ ssEval' = [ssEval EXCEPT ![f.ply] = se]
                   /\ lastStore' = [path |-> IF fromTT THEN "tt"
                                             ELSE IF fromNull THEN "null" ELSE "evaluate",
                                    val |-> se,
                                    raw |-> IF fromTT \/ fromNull THEN VALUE_NONE ELSE raw]
                   /\ IF bv >= f.beta
                      THEN LET sp == IF ~is_decisive(bv) THEN TruncDiv(bv + f.beta, 2)
                                     ELSE bv
                           IN  /\ Return(f, sp, "standpat", posDepth)
                               /\ ttWrite' = IF hit THEN NoWrite
                                             ELSE TTWrite("standpat", sp, f.ply)
                      ELSE /\ Continue([f EXCEPT !.bestValue = bv,
                                                 !.alpha = Max(f.alpha, bv),
                                                 !.pc = "qnext"])
                           /\ ttWrite' = NoWrite
    /\ SamePos /\ UNCHANGED <<ssExcl, ssNull, nmpMinPly>> /\ SameStop

\* qsearch, steps 5-7: the next move is pruned, or it is made (the node
\* counter, do_move) and searched
QSearch_NextMove ==
    /\ Running("qsearch", "qnext")
    /\ LET f == Top
           g == [f EXCEPT !.moveCount = f.moveCount + 1]
           futilityBase == IF f.inCheck THEN -VALUE_INFINITE ELSE ssEval[f.ply] + 204
       IN  \/ /\ Continue([f EXCEPT !.pc = "qafter"])
              /\ SamePos
              /\ UNCHANGED ssNull
           \/ /\ f.moveCount < MaxMoves
              /\ ~is_loss(f.bestValue)
              /\ \E see \in BOOLEAN :
                 /\ see => ~is_loss(futilityBase)
                 /\ Continue([g EXCEPT !.bestValue = IF see THEN Min(f.alpha, futilityBase)
                                                     ELSE f.bestValue])
              /\ SamePos
              /\ UNCHANGED ssNull
           \/ /\ f.moveCount < MaxMoves
              /\ nodes < MaxNodes
              /\ Call([g EXCEPT !.pc = "qmove_ret", !.dm = f.dm + 1],
                      Frame("qsearch", f.nt, f.ply + 1, -f.beta, -f.alpha, 0, FALSE,
                            FALSE, posDepth + 1))
              /\ ssNull' = [ssNull EXCEPT ![f.ply] = FALSE]
              /\ nodes' = nodes + 1
              /\ doMoves' = doMoves + 1
              /\ posDepth' = posDepth + 1
              /\ UNCHANGED <<ponderMoves, doNulls>>
    /\ UNCHANGED <<ssEval, ssExcl, nmpMinPly>>
    /\ lastStore' = NoStore
    /\ ttWrite' = NoWrite
    /\ SameStop

QSearch_MoveRet_nocount ==
    /\ Running("qsearch", "qmove_ret")
    /\ posDepth' = posDepth - 1
    /\ nodes' = nodes - 1
    /\ Continue([Top EXCEPT !.um = Top.um + 1, !.pc = "qnext"])
    /\ UNCHANGED <<doMoves, ponderMoves, doNulls, nmpMinPly>>
    /\ SameSs /\ SameStop

\* qsearch, step 8: undo_move and the update of bestValue and alpha
QSearch_MoveRet ==
    /\ Running("qsearch", "qmove_ret")
    /\ posDepth' = posDepth - 1
    /\ LET f == [Top EXCEPT !.um = Top.um + 1]
           value == -retVal
       IN  IF value > f.bestValue
           THEN IF value > f.alpha
                THEN IF value < f.beta
                     THEN Continue([f EXCEPT !.bestValue = value, !.bestMove = TRUE,
                                             !.alpha = value, !.pc = "qnext"])
                     ELSE Continue([f EXCEPT !.bestValue = value, !.bestMove = TRUE,
                                             !.pc = "qafter"])
                ELSE Continue([f EXCEPT !.bestValue = value, !.pc = "qnext"])
           ELSE Continue([f EXCEPT !.pc = "qnext"])
    /\ UNCHANGED <<nodes, doMoves, ponderMoves, doNulls, nmpMinPly>>
    /\ SameSs /\ SameStop

\* qsearch, step 9: the mate test and the result
QSearch_After ==
    /\ Running("qsearch", "qafter")
    /\ LET f == Top
           bv == IF ~is_decisive(f.bestValue) /\ f.bestValue >= f.beta
                 THEN TruncDiv(3 * f.bestValue + f.beta, 4) ELSE f.bestValue
       IN  IF f.bestValue = -VALUE_INFINITE
           THEN /\ Return(f, mated_in(f.ply), "mated", posDepth)
                /\ ttWrite' = NoWrite
           ELSE /\ Return(f, bv, IF bv >= f.beta THEN "cutoff" ELSE "normal", posDepth)
                /\ ttWrite' = TTWrite("qsearch", bv, f.ply)
    /\ SamePos /\ UNCHANGED <<ssEval, ssExcl, ssNull>> /\ lastStore' = NoStore
    /\ UNCHANGED nmpMinPly /\ SameStop

\* start_searching after the search: when the PV of the best root move has
\* one move, extract_ponder_from_tt makes it on the root position, probes the
\* table and takes it back
ExtractPonder ==
    /\ sePc = "returned"
    /\ sePc' = "done"
    /\ \E single \in BOOLEAN :
       /\ doMoves' = IF single THEN doMoves + 1 ELSE doMoves
       /\ ponderMoves' = IF single THEN ponderMoves + 1 ELSE ponderMoves
    /\ lastRet' = NoRet
    /\ UNCHANGED <<stack, nodes, doNulls, posDepth, nmpMinPly, retVal, calls>>
    /\ SameSs /\ SameStop

\* the steps of search that load threads.stop next: the poll after step 2
\* and the test after undo_move
LoadsStop(f) == f.fn = "search" /\ f.pc \in {"poll", "lmr_ret", "full_ret", "pv_ret"}

\* threads.stop is set, by check_time, by the stop command or by the main
\* worker; the worker sees the store at its next load, so the store is
\* ordered right before a load
RaiseStop ==
    /\ sePc = "search"
    /\ Len(stack) > 0
    /\ LoadsStop(Top)
    /\ ~stop
    /\ stop' = TRUE
    /\ lastRet' = NoRet
    /\ UNCHANGED <<stack, nodes, doMoves, ponderMoves, doNulls, posDepth, nmpMinPly,
                   retVal, calls, sePc>>
    /\ SameSs
    /\ UNCHANGED seOthers

(***************************************************************************)
(* SpecRoot: iterative_deepening of one worker with multiPV = 1 under      *)
(* "go depth MaxIter".  The searches below the root moves are abstracted   *)
(* to the values they return.                                              *)
(***************************************************************************)
Moves == 1..NumRootMoves

\* the values returned by the searches below the root moves
RootScores == { 10, 30, -VALUE_MATE + 100 }

\* the aspiration windows derived from averageScore and meanSquaredScore
Windows ==
    { [alpha |-> -VALUE_INFINITE, beta |-> VALUE_INFINITE, delta |-> 10],
      [alpha |-> 0, beta |-> 20, delta |-> 10] }

NoRs == [alpha |-> 0, beta |-> 0, bestValue |-> -VALUE_INFINITE, tried |-> {},
         cut |-> FALSE]

\* RootMove::operator<: descending score, then descending previousScore
RootMoveLess(a, b) ==
    IF a.score # b.score THEN a.score > b.score
    ELSE a.previousScore > b.previousScore

RECURSIVE InsertSorted(_, _)
InsertSorted(x, s) ==
    IF s = <<>> THEN <<x>>
    ELSE IF RootMoveLess(x, s[Len(s)])
    THEN Append(InsertSorted(x, SubSeq(s, 1, Len(s) - 1)), s[Len(s)])
    ELSE Append(s, x)

RECURSIVE StableSort(_)
StableSort(s) ==
    IF s = <<>> THEN <<>>
    ELSE InsertSorted(s[Len(s)], StableSort(SubSeq(s, 1, Len(s) - 1)))

\* Utility::move_to_front: the first element whose pv[0] is m is rotated to
\* the front
MoveToFront(s, m) ==
    LET hits == { i \in DOMAIN s : s[i].pv0 = m }
    IN  IF hits = {} THEN s
        ELSE LET k == CHOOSE i \in hits : \A j \in hits : i <= j
             IN  <<s[k]>> \o SubSeq(s, 1, k - 1) \o SubSeq(s, k + 1, Len(s))

RootStart ==
    /\ rootMoves = [i \in Moves |-> [move |-> i, pv0 |-> i, score |-> -VALUE_INFINITE,
                                     previousScore |-> -VALUE_INFINITE]]
    /\ lastBestPV = 0
    /\ lastBestScore = -VALUE_INFINITE
    /\ window = [alpha |-> -VALUE_INFINITE, beta |-> VALUE_INFINITE, delta |-> 10]
    /\ rs = NoRs
    /\ interrupted = FALSE
    /\ completedFront = 0
    /\ emitted = 0
    /\ rootPc = "loop"

SameRootCo == UNCHANGED rtOthers

\* iterative_deepening: the test of the loop and the set-up of an iteration
RootLoop ==
    /\ rootPc = "loop"
    /\ rootDepth[0] <= MaxIter
    /\ rootDepth' = [rootDepth EXCEPT ![0] = rootDepth[0] + 1]
    /\ IF rootDepth[0] + 1 < MAX_PLY /\ ~stop /\ ~(rootDepth[0] + 1 > MaxIter)
       THEN /\ rootMoves' = [i \in DOMAIN rootMoves |->
                                [rootMoves[i] EXCEPT !.previousScore = rootMoves[i].score]]
            /\ \E w \in Windows :
               /\ window' = w
               /\ rs' = [NoRs EXCEPT !.alpha = w.alpha, !.beta = w.beta]
            /\ rootPc' = "search"
       ELSE /\ rootPc' = "finish"
            /\ UNCHANGED <<rootMoves, window, rs>>
    /\ UNCHANGED <<lastBestPV, lastBestScore, interrupted, completedFront, emitted>>
    /\ UNCHANGED <<stop, abortedSearch, completedDepth>>
    /\ SameRootCo

\* search<Root>: one move of the move loop; the first move is the table
\* move rootMoves[0].pv[0]; after undo_move the invocation returns VALUE_ZERO
\* when threads.stop is set, otherwise it updates the root move
RootSearchMove ==
    /\ rootPc = "search"
    /\ ~rs.cut
    /\ \E i \in DOMAIN rootMoves, value \in RootScores :
       LET m == rootMoves[i].move
           moveCount == Cardinality(rs.tried) + 1
           taken == moveCount = 1 \/ value > rs.alpha
       IN  /\ m \notin rs.tried
           /\ moveCount = 1 => i = 1
           /\ IF stop
              THEN /\ rs' = [rs EXCEPT !.bestValue = VALUE_ZERO, !.cut = TRUE]
                   /\ interrupted' = TRUE
                   /\ UNCHANGED rootMoves
              ELSE /\ rootMoves' =
                        [rootMoves EXCEPT ![i].score = IF taken THEN value
                                                       ELSE -VALUE_INFINITE,
                                          ![i].pv0 = IF taken THEN m ELSE @]
                   /\ rs' = [rs EXCEPT !.tried = rs.tried \cup {m},
                                       !.bestValue = Max(rs.bestValue, value),
                                       !.alpha = IF value > rs.alpha /\ value < rs.beta
                                                 THEN value ELSE rs.alpha,
                                       !.cut = (value > rs.alpha /\ value >= rs.beta)]
                   /\ UNCHANGED interrupted
    /\ UNCHANGED <<lastBestPV, lastBestScore, window, completedFront, emitted, rootPc>>
    /\ UNCHANGED <<stop, abortedSearch, rootDepth, completedDepth>>
    /\ SameRootCo

\* search<Root> returns: a cutoff, threads.stop, or no move is left
RootSearchReturn ==
    /\ rootPc = "search"
    /\ rs.cut \/ rs.tried = Moves
    /\ rootPc' = "sort"
    /\ UNCHANGED <<rootMoves, lastBestPV, lastBestScore, window, rs, interrupted,
                   completedFront, emitted>>
    /\ UNCHANGED <<stop, abortedSearch, rootDepth, completedDepth>>
    /\ SameRootCo

\* the aspiration loop after search<Root>: the stable sort of the root
\* moves, the break on threads.stop, the new window after a fail low or a
\* fail high
RootSort ==
    /\ rootPc = "sort"
    /\ rootMoves' = StableSort(rootMoves)
    /\ LET bestValue == rs.bestValue
           grown == [window EXCEPT !.delta = window.delta + window.delta \div 3]
           low == [grown EXCEPT !.beta = TruncDiv(window.alpha + window.beta, 2),
                                !.alpha = Max(bestValue - window.delta, -VALUE_INFINITE)]
           high == [grown EXCEPT !.beta = Min(bestValue + window.delta, VALUE_INFINITE)]
       IN  IF stop
           THEN rootPc' = "iterend" /\ UNCHANGED <<window, rs>>
           ELSE IF bestValue <= window.alpha
           THEN /\ window' = low
                /\ rs' = [NoRs EXCEPT !.alpha = low.alpha, !.beta = low.beta]
                /\ rootPc' = "search"
           ELSE IF bestValue >= window.beta
           THEN /\ window' = high
                /\ rs' = [NoRs EXCEPT !.alpha = high.alpha, !.beta = high.beta]
                /\ rootPc' = "search"
           ELSE rootPc' = "iterend" /\ UNCHANGED <<window, rs>>
    /\ UNCHANGED <<lastBestPV, lastBestScore, interrupted, completedFront, emitted>>
    /\ UNCHANGED <<stop, abortedSearch, rootDepth, completedDepth>>
    /\ SameRootCo

\* the end of an iteration: completedDepth, the restore of the last best PV
\* after an aborted search with a losing score, or the record of a new one
RootIterEnd ==
    /\ rootPc = "iterend"
    /\ completedDepth' = IF ~stop THEN [completedDepth EXCEPT ![0] = rootDepth[0]]
                         ELSE completedDepth
    /\ LET front == rootMoves[1]
           restore == /\ abortedSearch
                      /\ front.score # -VALUE_INFINITE
                      /\ is_loss(front.score)
           moved == MoveToFront(rootMoves, lastBestPV)
           after == IF restore
                    THEN [moved EXCEPT ![1].pv0 = lastBestPV, ![1].score = lastBestScore]
                    ELSE rootMoves
       IN  /\ rootMoves' = after
           /\ IF ~restore /\ front.pv0 # lastBestPV
              THEN lastBestPV' = front.pv0 /\ lastBestScore' = front.score
              ELSE UNCHANGED <<lastBestPV, lastBestScore>>
           /\ completedFront' = IF ~stop THEN after[1].pv0 ELSE completedFront
    /\ rootPc' = "loop"
    /\ UNCHANGED <<window, rs, interrupted, emitted>>
    /\ UNCHANGED <<stop, abortedSearch, rootDepth>>
    /\ SameRootCo

\* threads.stop is set by the stop command, or by check_time together with
\* threads.abortedSearch
RootStop ==
    /\ rootPc \in {"loop", "search", "sort", "iterend"}
    /\ ~stop
    /\ stop' = TRUE
    /\ \E aborted \in BOOLEAN : abortedSearch' = aborted
    /\ UNCHANGED rtVars
    /\ UNCHANGED <<rootDepth, completedDepth>>
    /\ SameRootCo

\* start_searching after the loop: the bestmove line names pv[0] of the
\* first root move of the worker
RootFinish ==
    /\ rootPc = "finish"
    /\ emitted' = rootMoves[1].pv0
    /\ rootPc' = "done"
    /\ UNCHANGED <<rootMoves, lastBestPV, lastBestScore, window, rs, interrupted,
                   completedFront>>
    /\ UNCHANGED <<stop, abortedSearch, rootDepth, completedDepth>>
    /\ SameRootCo

(***************************************************************************)
(* History cells (SpecHist): one cell of mainHistory, lowPlyHistory,       *)
(* pawnHistory and of a continuation history table, all with the limit D,  *)
(* under update_quiet_histories.                                           *)
(***************************************************************************)
HistCells == {"main", "lowPly", "cont", "pawn"}

\* the gravity update without the clamp of the bonus
Gravity_noclamp(entry, bonus, D) ==
    entry + bonus - TruncDiv(entry * Abs(bonus), D)

\* StatsEntry::operator<<(bonus): the gravity update of one cell
Gravity(entry, bonus, D) ==
    LET clampedBonus == Clamp(bonus, -D, D)
    IN  entry + clampedBonus - TruncDiv(entry * Abs(clampedBonus), D)

\* conthist_bonuses: the frames (ss - i) and their weights
conthist_bonuses == <<[i |-> 1, weight |-> 1024], [i |-> 2, weight |-> 571],
                      [i |-> 3, weight |-> 339], [i |-> 4, weight |-> 500],
                      [i |-> 6, weight |-> 592]>>

\* the sets of frames (ss - i) whose move is ok and whose continuation
\* history table holds the cell
ContHits == { {}, {2, 4}, {1, 2, 3, 4, 6} }

\* update_continuation_histories, as seen by one cell: the loop from
\* position k of conthist_bonuses on
RECURSIVE ContLoop(_, _, _, _, _, _)
ContLoop(k, entry, bonus, inCheck, hits, D) ==
    IF k > Len(conthist_bonuses) THEN entry
    ELSE LET cb == conthist_bonuses[k]
         IN  IF inCheck /\ cb.i > 2 THEN entry
             ELSE ContLoop(k + 1,
                           IF cb.i \in hits
                           THEN Gravity(entry, TruncDiv(bonus * cb.weight, 1024), D)
                           ELSE entry,
                           bonus, inCheck, hits, D)

update_continuation_histories(entry, bonus, inCheck, hits, D) ==
    ContLoop(1, entry, bonus, inCheck, hits, D)

\* Worker::clear fills every table with a value inside its limit
HistStart ==
    /\ hD \in 1..MaxD
    /\ \E fill \in (-hD)..hD : hEntry = [c \in HistCells |-> fill]
    /\ hBonus = 0
    /\ hPc = "cell"

update_quiet_histories ==
    /\ hPc = "cell"
    /\ \E bonus \in (-MaxBonus)..MaxBonus, lowPly \in BOOLEAN, inCheck \in BOOLEAN,
          hits \in ContHits :
        /\ hEntry' =
              [main   |-> Gravity(hEntry.main, bonus, hD),
               lowPly |-> IF lowPly
                          THEN Gravity(hEntry.lowPly, TruncDiv(bonus * 874, 1024), hD)
                          ELSE hEntry.lowPly,
               cont   |-> update_continuation_histories(
                              hEntry.cont, TruncDiv(bonus * 853, 1024), inCheck, hits, hD),
               pawn   |-> Gravity(hEntry.pawn, TruncDiv(bonus * 628, 1024), hD)]
        /\ hBonus' = bonus
    /\ UNCHANGED <<hD, hPc>>
    /\ UNCHANGED hiOthers

(***************************************************************************)
(* Bitboards (src/src/bitboard.cpp, src/src/types.h).  A bitboard is the   *)
(* set of its squares.                                                     *)
(***************************************************************************)
SQ_A0 == 0
SQ_I9 == 89
SQUARE_NB == 90
RANK_NB == 10
RANK_4 == 4
NORTH == 9
EAST == 1
SOUTH == -NORTH
WEST == -EAST
NORTH_EAST == NORTH + EAST
SOUTH_EAST == SOUTH + EAST
SOUTH_WEST == SOUTH + WEST
NORTH_WEST == NORTH + WEST

Squares == SQ_A0..SQ_I9
PieceTypes == {"ROOK", "CANNON", "BISHOP", "KNIGHT", "KNIGHT_TO"}

\* C++ a % b for b > 0: the remainder has the sign of a
CRem(a, b) == a - b * TruncDiv(a, b)

is_ok_square(s) == s >= SQ_A0 /\ s <= SQ_I9
file_of(s) == s % FILE_NB
rank_of(s) == s \div FILE_NB
make_square(f, r) == r * FILE_NB + f

\* Bitboards::init: the table SquareDistance
SquareDistance ==
    [s1 \in Squares |-> [s2 \in Squares |->
        Max(Abs(file_of(s1) - file_of(s2)), Abs(rank_of(s1) - rank_of(s2)))]]

distance(s1, s2) == SquareDistance[s1][s2]

rank_bb(s) == { t \in Squares : rank_of(t) = rank_of(s) }
file_bb(s) == { t \in Squares : file_of(t) = file_of(s) }
Rank0BB == { t \in Squares : rank_of(t) = 0 }
Rank9BB == { t \in Squares : rank_of(t) = RANK_NB - 1 }
FileABB == { t \in Squares : file_of(t) = 0 }
FileIBB == { t \in Squares : file_of(t) = FILE_NB - 1 }
\* HalfBB[upper]: the half of the board on one side of the river
HalfBB(upper) == { t \in Squares : (rank_of(t) > RANK_4) = upper }

KnightDirections == {2 * SOUTH + WEST, 2 * SOUTH + EAST, SOUTH + 2 * WEST,
                     SOUTH + 2 * EAST, NORTH + 2 * WEST, NORTH + 2 * EAST,
                     2 * NORTH + WEST, 2 * NORTH + EAST}
BishopDirections == {2 * NORTH_EAST, 2 * SOUTH_EAST, 2 * SOUTH_WEST, 2 * NORTH_WEST}
Directions(pt) == IF pt = "BISHOP" THEN BishopDirections ELSE KnightDirections

\* the walk of a rook that stops in front of the first occupied square
RECURSIVE SlideFrom_stopbefore(_, _, _, _, _)
SlideFrom_stopbefore(pt, s, d, hurdle, occupied) ==
    IF ~(is_ok_square(s) /\ distance(s - d, s) = 1) THEN {}
    ELSE IF s \in occupied
         THEN IF pt = "CANNON" /\ ~hurdle
              THEN SlideFrom_stopbefore(pt, s + d, d, TRUE, occupied)
              ELSE IF hurdle THEN {s} ELSE {}
         ELSE (IF pt = "ROOK" \/ hurdle THEN {s} ELSE {})
              \cup SlideFrom_stopbefore(pt, s + d, d, hurdle, occupied)

\* the walk of a cannon that goes on behind the second occupied square
RECURSIVE SlideFrom_nostop(_, _, _, _, _)
SlideFrom_nostop(pt, s, d, hurdle, occupied) ==
    IF ~(is_ok_square(s) /\ distance(s - d, s) = 1) THEN {}
    ELSE LET here == IF pt = "ROOK" \/ hurdle THEN {s} ELSE {}
         IN  IF s \in occupied /\ pt = "ROOK"
             THEN here
             ELSE here \cup SlideFrom_nostop(pt, s + d, d, hurdle \/ s \in occupied,
                                             occupied)

\* the inner loop of sliding_attack: the walk from s on in direction d
RECURSIVE SlideFrom(_, _, _, _, _)
SlideFrom(pt, s, d, hurdle, occupied) ==
    IF ~(is_ok_square(s) /\ distance(s - d, s) = 1) THEN {}
    ELSE LET here == IF pt = "ROOK" \/ hurdle THEN {s} ELSE {}
         IN  IF s \in occupied
             THEN IF pt = "CANNON" /\ ~hurdle
                  THEN here \cup SlideFrom(pt, s + d, d, TRUE, occupied)
                  ELSE here
             ELSE here \cup SlideFrom(pt, s + d, d, hurdle, occupied)

sliding_attack(pt, sq, occupied) ==
    UNION { SlideFrom(pt, sq + d, d, FALSE, occupied) : d \in {NORTH, SOUTH, EAST, WEST} }

\* the blocking square taken on the axis of the short component
lame_leaper_path_shortaxis(pt, d, s) ==
    LET to == s + d
    IN  IF ~is_ok_square(to) \/ distance(s, to) >= 4 THEN {}
        ELSE LET s1  == IF pt = "KNIGHT_TO" THEN to ELSE s
                 to1 == IF pt = "KNIGHT_TO" THEN s ELSE to
                 d1  == IF pt = "KNIGHT_TO" THEN -d ELSE d
                 dr  == IF d1 > 0 THEN NORTH ELSE SOUTH
                 m   == CRem(d1, NORTH)
                 df  == IF (IF Abs(m) < NORTH \div 2 THEN m ELSE -m) < 0
                        THEN WEST ELSE EAST
                 diff == Abs(file_of(to1) - file_of(s1)) - Abs(rank_of(to1) - rank_of(s1))
             IN  IF diff > 0 THEN {s1 + dr}
                 ELSE IF diff < 0 THEN {s1 + df}
                 ELSE {s1 + df + dr}

\* the blocking square of KNIGHT_TO taken without reversing the step
lame_leaper_path_noreverse(pt, d, s) ==
    LET to == s + d
    IN  IF ~is_ok_square(to) \/ distance(s, to) >= 4 THEN {}
        ELSE LET dr  == IF d > 0 THEN NORTH ELSE SOUTH
                 m   == CRem(d, NORTH)
                 df  == IF (IF Abs(m) < NORTH \div 2 THEN m ELSE -m) < 0
                        THEN WEST ELSE EAST
                 diff == Abs(file_of(to) - file_of(s)) - Abs(rank_of(to) - rank_of(s))
             IN  IF diff > 0 THEN {s + df}
                 ELSE IF diff < 0 THEN {s + dr}
                 ELSE {s + df + dr}

\* lame_leaper_path<pt>(d, s): the square that blocks the step d from s
lame_leaper_path(pt, d, s) ==
    LET to == s + d
    IN  IF ~is_ok_square(to) \/ distance(s, to) >= 4 THEN {}
        ELSE LET s1  == IF pt = "KNIGHT_TO" THEN to ELSE s
                 to1 == IF pt = "KNIGHT_TO" THEN s ELSE to
                 d1  == IF pt = "KNIGHT_TO" THEN -d ELSE d
                 dr  == IF d1 > 0 THEN NORTH ELSE SOUTH
                 m   == CRem(d1, NORTH)
                 df  == IF (IF Abs(m) < NORTH \div 2 THEN m ELSE -m) < 0
                        THEN WEST ELSE EAST
                 diff == Abs(file_of(to1) - file_of(s1)) - Abs(rank_of(to1) - rank_of(s1))
             IN  IF diff > 0 THEN {s1 + df}
                 ELSE IF diff < 0 THEN {s1 + dr}
                 ELSE {s1 + df + dr}

\* lame_leaper_path<pt>(s): the blocking squares of every step from s
lame_leaper_path_all(pt, s) ==
    LET b == UNION { lame_leaper_path(pt, d, s) : d \in Directions(pt) }
    IN  IF pt = "BISHOP" THEN b \cap HalfBB(rank_of(s) > RANK_4) ELSE b

lame_leaper_attack(pt, s, occupied) ==
    LET b == { s + d : d \in { e \in Directions(pt) :
                                 /\ is_ok_square(s + e)
                                 /\ distance(s, s + e) < 4
                                 /\ lame_leaper_path(pt, e, s) \cap occupied = {} } }
    IN  IF pt = "BISHOP" THEN b \cap HalfBB(rank_of(s) > RANK_4) ELSE b

\* the slow reference routine init_magics stores the results of
Reference(pt, s, b) ==
    IF pt \in {"ROOK", "CANNON"} THEN sliding_attack(pt, s, b)
    ELSE lame_leaper_attack(pt, s, b)

\* init_magics: the board edges that are not on the rank or file of s
Edges(s) ==
    ((Rank0BB \cup Rank9BB) \ rank_bb(s)) \cup ((FileABB \cup FileIBB) \ file_bb(s))

\* the mask with the edges removed for every table
Mask_stripalways(pt, s) ==
    LET m == IF pt \in {"ROOK", "CANNON"} THEN sliding_attack("ROOK", s, {})
             ELSE lame_leaper_path_all(pt, s)
    IN  m \ Edges(s)

\* init_magics: magics[s].mask
Mask(pt, s) ==
    LET rook == sliding_attack("ROOK", s, {}) \ Edges(s)
        m == IF pt = "ROOK" THEN sliding_attack("ROOK", s, {})
             ELSE IF pt = "CANNON" THEN rook
             ELSE lame_leaper_path_all(pt, s)
    IN  IF pt # "KNIGHT_TO" THEN m \ Edges(s) ELSE m

\* init_magics: the masks of the five tables
magics == [pt \in PieceTypes |-> [s \in Squares |-> Mask(pt, s)]]

\* init_magics: the entry stored for the subset b of the mask
\* (m.attacks[m.index(b)]; the loop visits every subset of the mask)
TableEntry(pt, s, b) == Reference(pt, s, b)

\* attacks_bb(pt, s, occupied): the entry at the index of occupied & mask
attacks_bb(pt, s, occupied) == TableEntry(pt, s, occupied \cap magics[pt][s])

\* StartFEN "rnbakabnr/9/1c5c1/p1p1p1p1p/9/9/P1P1P1P1P/1C5C1/9/RNBAKABNR":
\* the files occupied in each row, from rank 9 down
StartRows == << 0..8, {}, {1, 7}, {0, 2, 4, 6, 8}, {},
               {}, {0, 2, 4, 6, 8}, {1, 7}, {}, 0..8 >>

\* the squares occupied in the starting position
StartSquares ==
    { s \in Squares : file_of(s) \in StartRows[RANK_NB - rank_of(s)] }

\* the occupancies explored: at most k pieces, on squares of StartSquares
RECURSIVE Occupancies(_)
Occupancies(k) ==
    IF k = 0 THEN {{}}
    ELSE LET P == Occupancies(k - 1)
         IN  P \cup { o \cup {s} : o \in P, s \in StartSquares }

BBStart ==
    /\ bbOcc \in Occupancies(MaxOcc)
    /\ bbPt = "none"
    /\ bbKind = "none"
    /\ bbAtt = [s \in Squares |-> {}]

\* the reference routine applied to every square
BBReference ==
    /\ bbKind = "none"
    /\ \E pt \in PieceTypes :
        /\ bbPt' = pt
        /\ bbAtt' = [s \in Squares |-> Reference(pt, s, bbOcc)]
    /\ bbKind' = "reference"
    /\ UNCHANGED bbOcc
    /\ UNCHANGED bbOthers

\* the table lookup applied to every square
BBLookup ==
    /\ bbKind = "none"
    /\ \E pt \in PieceTypes :
        /\ bbPt' = pt
        /\ bbAtt' = [s \in Squares |-> attacks_bb(pt, s, bbOcc)]
    /\ bbKind' = "lookup"
    /\ UNCHANGED bbOcc
    /\ UNCHANGED bbOthers

(***************************************************************************)
(* Bitboards::init: the rows LineBB[s1] and BetweenBB[s1] (SpecLines).     *)
(***************************************************************************)
\* PseudoAttacks[pt][s]
PseudoAttacks(pt, s) == attacks_bb(pt, s, {})

LineBB(s1, s2) ==
    IF s2 \in PseudoAttacks("ROOK", s1)
    THEN (attacks_bb("ROOK", s1, {}) \cap attacks_bb("ROOK", s2, {})) \cup {s1, s2}
    ELSE {}

\* the entry with the blocking square of the knight step taken next to s1
BetweenBB_legnearfrom(s1, s2) ==
    LET rook == IF s2 \in PseudoAttacks("ROOK", s1)
                THEN attacks_bb("ROOK", s1, {s2}) \cap attacks_bb("ROOK", s2, {s1})
                ELSE {}
        knight == IF s2 \in PseudoAttacks("KNIGHT", s1)
                  THEN lame_leaper_path("KNIGHT", s2 - s1, s1)
                  ELSE {}
    IN  rook \cup knight \cup {s2}

BetweenBB(s1, s2) ==
    LET rook == IF s2 \in PseudoAttacks("ROOK", s1)
                THEN attacks_bb("ROOK", s1, {s2}) \cap attacks_bb("ROOK", s2, {s1})
                ELSE {}
        knight == IF s2 \in PseudoAttacks("KNIGHT", s1)
                  THEN lame_leaper_path("KNIGHT_TO", s2 - s1, s1)
                  ELSE {}
    IN  rook \cup knight \cup {s2}

\* the global tables are zero-initialized
LinesStart ==
    /\ lnS1 \in Squares
    /\ lnLine = [s \in Squares |-> {}]
    /\ lnBetween = [s \in Squares |-> {}]
    /\ lnPc = "zero"

\* one turn of the loop over s1 in Bitboards::init
Bitboards_init ==
    /\ lnPc = "zero"
    /\ lnLine' = [s2 \in Squares |-> LineBB(lnS1, s2)]
    /\ lnBetween' = [s2 \in Squares |-> BetweenBB(lnS1, s2)]
    /\ lnPc' = "init"
    /\ UNCHANGED lnS1
    /\ UNCHANGED lnOthers

(***************************************************************************)
(* The command loop (src/src/uci.cpp), SpecUci.  A command line is the     *)
(* sequence of its whitespace-separated tokens.                            *)
(***************************************************************************)
StartFEN == <<"rnbakabnr/9/1c5c1/p1p1p1p1p/9/9/P1P1P1P1P/1C5C1/9/RNBAKABNR", "w">>

\* the command lines explored
Lines ==
    { <<>>, <<"#">>, <<"#note", "position", "startpos">>,
      <<"foo">>, <<"Position", "startpos">>, <<"moves", "h2e2">>,
      <<"position">>, <<"position", "bar">>, <<"position", "moves", "h2e2">>,
      <<"position", "startpos">>, <<"position", "startpos", "moves", "h2e2">>,
      <<"position", "fen", "4k4/9/9/9/9/9/9/9/9/4K4", "b", "moves", "e9e8">>,
      <<"startpos">>, <<"fen", "4k4/9/9/9/9/9/9/9/9/4K4", "b">>,
      <<"go", "infinite">>, <<"go", "ponder">>, <<"stop">>, <<"ponderhit">>,
      <<"isready">>, <<"uci">>, <<"setoption", "name", "Hash", "value", "64">>,
      <<"ucinewgame">>, <<"flip">>, <<"quit">> }

\* token[0] == '#', for the tokens of Lines
starts_with_hash(token) == token \in {"#", "#note"}

\* is >> token on the tokens left of a line
FirstToken(tokens) == IF tokens = <<>> THEN "" ELSE Head(tokens)
Rest(tokens) == IF tokens = <<>> THEN <<>> ELSE Tail(tokens)

\* the position of the first token "moves" in tokens (Len + 1: none)
RECURSIVE MovesAt(_, _)
MovesAt(tokens, k) ==
    IF k > Len(tokens) \/ tokens[k] = "moves" THEN k ELSE MovesAt(tokens, k + 1)

\* the engine as the command loop sees it
NewEngine ==
    [pos       |-> [fen |-> StartFEN, moves |-> <<>>, flipped |-> FALSE],
     options   |-> [Hash |-> "16"],
     searching |-> FALSE,
     ponder    |-> FALSE,
     cleared   |-> TRUE]

set_position(e, fen, moves) ==
    [e EXCEPT !.pos = [fen |-> fen, moves |-> moves, flipped |-> FALSE]]

\* position without the return for an argument that is neither startpos nor fen
position_noreturn(e, is) ==
    LET token == FirstToken(is)
    IN  IF token = "startpos"
        THEN set_position(e, StartFEN, Rest(Rest(is)))
        ELSE IF token = "fen"
        THEN LET k == MovesAt(is, 2)
             IN  set_position(e, SubSeq(is, 2, k - 1), SubSeq(is, k + 1, Len(is)))
        ELSE set_position(e, <<>>, Rest(is))

\* UCIEngine::position on the tokens left on the line
position(e, is) ==
    LET token == FirstToken(is)
    IN  IF token = "startpos"
        THEN \* the next token ("moves") is swallowed, the rest are the moves
             set_position(e, StartFEN, Rest(Rest(is)))
        ELSE IF token = "fen"
        THEN LET k == MovesAt(is, 2)
             IN  set_position(e, SubSeq(is, 2, k - 1), SubSeq(is, k + 1, Len(is)))
        ELSE e

\* UCIEngine::go on the tokens left on the line (parse_limits, engine.go)
go(e, is) ==
    [e EXCEPT !.searching = TRUE,
              !.ponder = \E k \in 1..Len(is) : is[k] = "ponder",
              !.cleared = FALSE]

\* UCIEngine::setoption on the tokens left on the line
setoption(e, is) ==
    IF Len(is) >= 4 /\ is[1] = "name" /\ is[3] = "value" /\ is[2] \in DOMAIN e.options
    THEN [e EXCEPT !.options[is[2]] = is[4]]
    ELSE e

\* the commands that wait for the search to finish before they act
Waits(token) == token \in {"setoption", "ucinewgame"}

\* the branch of the loop taken for cmdline: the engine and the output after it
Dispatch(e, cmdline) ==
    LET token == FirstToken(cmdline)
        is == Rest(cmdline)
    IN  IF token = "quit" \/ token = "stop"
        THEN [engine |-> [e EXCEPT !.searching = FALSE], out |-> "none"]
        ELSE IF token = "ponderhit"
        THEN [engine |-> [e EXCEPT !.ponder = FALSE], out |-> "none"]
        ELSE IF token = "uci"
        THEN [engine |-> e, out |-> "uciok"]
        ELSE IF token = "setoption"
        THEN [engine |-> setoption(e, is), out |-> "none"]
        ELSE IF token = "go"
        THEN [engine |-> go(e, is), out |-> "info string"]
        ELSE IF token = "position"
        THEN [engine |-> position(e, is), out |-> "none"]
        ELSE IF token = "fen" \/ token = "startpos"
        THEN \* is.seekg(0): position reads the line from its first token
             [engine |-> position(e, cmdline), out |-> "none"]
        ELSE IF token = "ucinewgame"
        THEN [engine |-> [e EXCEPT !.cleared = TRUE], out |-> "none"]
        ELSE IF token = "isready"
        THEN [engine |-> e, out |-> "readyok"]
        ELSE IF token = "flip"
        THEN [engine |-> [e EXCEPT !.pos.flipped = ~@], out |-> "none"]
        ELSE IF token # "" /\ ~starts_with_hash(token)
        THEN [engine |-> e, out |-> "Unknown command"]
        ELSE [engine |-> e, out |-> "none"]

\* the engine is constructed; with arguments on the command line cmdline is
\* built from them before the loop
UciStart ==
    /\ cliArgc \in {1, 2}
    /\ uciCmd \in (IF cliArgc = 1 THEN {<<>>} ELSE Lines)
    /\ engine = NewEngine
    /\ uciBefore = NewEngine
    /\ uciOut = "none"
    /\ uciFresh = FALSE
    /\ uciTurns = 0
    /\ uciPc = "loop"

\* one turn of the do-while loop of UCIEngine::loop
UciLoop ==
    /\ uciPc = "loop"
    /\ uciTurns < MaxCmds
    /\ \E got \in BOOLEAN, line \in Lines :
        LET cmdline == IF cliArgc = 1
                   THEN (IF got THEN line ELSE <<"quit">>)
                   ELSE uciCmd
            token == FirstToken(cmdline)
            r == Dispatch(engine, cmdline)
        IN  /\ Waits(token) => ~engine.searching
            /\ uciCmd' = cmdline
            /\ uciBefore' = engine
            /\ engine' = r.engine
            /\ uciOut' = r.out
            /\ uciPc' = IF token # "quit" /\ cliArgc = 1 THEN "loop" ELSE "exit"
    /\ uciFresh' = TRUE
    /\ uciTurns' = uciTurns + 1
    /\ UNCHANGED cliArgc
    /\ UNCHANGED ucOthers

\* the running search ends by itself
UciSearchDone ==
    /\ uciPc = "loop"
    /\ engine.searching
    /\ engine' = [engine EXCEPT !.searching = FALSE]
    /\ uciFresh' = FALSE
    /\ UNCHANGED <<cliArgc, uciCmd, uciBefore, uciOut, uciTurns, uciPc>>
    /\ UNCHANGED ucOthers

(***************************************************************************)
(* The iterative-deepening loop of one worker run to its end (SpecDepth):  *)
(* the loop test of iterative_deepening and the iteration below it.        *)
(***************************************************************************)
\* iterative_deepening before the loop: rootDepth is zero
DepthStart ==
    /\ idLimitDepth \in 0..MaxDepthLimit
    /\ idMainThread \in BOOLEAN
    /\ idRan = 0
    /\ idLastDepth = 0
    /\ idPc = "loop"

\* the loop test with the increment after the comparison
DepthTest_postincrement ==
    /\ idPc = "loop"
    /\ rootDepth' = [rootDepth EXCEPT ![0] = rootDepth[0] + 1]
    /\ IF /\ rootDepth[0] < MAX_PLY
          /\ ~stop
          /\ ~(idLimitDepth # 0 /\ idMainThread /\ rootDepth[0] + 1 > idLimitDepth)
       THEN /\ idPc' = "body"
            /\ idRan' = idRan + 1
            /\ idLastDepth' = rootDepth[0] + 1
       ELSE /\ idPc' = "done"
            /\ UNCHANGED <<idRan, idLastDepth>>
    /\ UNCHANGED <<stop, completedDepth, idLimitDepth, idMainThread>>
    /\ UNCHANGED idOthers

\* while (++rootDepth < MAX_PLY && !threads.stop
\*        && !(limits.depth && mainThread && rootDepth > limits.depth))
DepthTest ==
    /\ idPc = "loop"
    /\ rootDepth' = [rootDepth EXCEPT ![0] = rootDepth[0] + 1]
    /\ IF /\ rootDepth[0] + 1 < MAX_PLY
          /\ ~stop
          /\ ~(idLimitDepth # 0 /\ idMainThread /\ rootDepth[0] + 1 > idLimitDepth)
       THEN /\ idPc' = "body"
            /\ idRan' = idRan + 1
            /\ idLastDepth' = rootDepth[0] + 1
       ELSE /\ idPc' = "done"
            /\ UNCHANGED <<idRan, idLastDepth>>
    /\ UNCHANGED <<stop, completedDepth, idLimitDepth, idMainThread>>
    /\ UNCHANGED idOthers

\* the body of the loop: the searches of the iteration, then
\* completedDepth = rootDepth unless threads.stop is set
DepthBody ==
    /\ idPc = "body"
    /\ completedDepth' = IF stop THEN completedDepth
                         ELSE [completedDepth EXCEPT ![0] = rootDepth[0]]
    /\ idPc' = "loop"
    /\ UNCHANGED <<stop, rootDepth, idLimitDepth, idMainThread, idRan, idLastDepth>>
    /\ UNCHANGED idOthers

\* threads.stop is set: a stop command, or the time check
DepthStop ==
    /\ idPc \in {"loop", "body"}
    /\ ~stop
    /\ stop' = TRUE
    /\ UNCHANGED <<rootDepth, completedDepth>>
    /\ UNCHANGED idVars
    /\ UNCHANGED idOthers

(***************************************************************************)
(* search.cpp, step 8: the null move and its verification search, over a   *)
(* tree of invocations of search.  What the position, the evaluation and   *)
(* the searches below decide is chosen by the environment; the depths, the *)
(* plies, cutNode and nmpMinPly are computed as the code computes them.    *)
(***************************************************************************)
NmFrame(ply, depth, cutNode, prevNull) ==
    [ply |-> ply, depth |-> depth, cutNode |-> cutNode, prevNull |-> prevNull,
     pc |-> "step8", R |-> 0, moves |-> 0]

NmTop == nmStack[Len(nmStack)]

NmRunning(pc) == Len(nmStack) > 0 /\ NmTop.pc = pc

NmContinue(f) == nmStack' = [nmStack EXCEPT ![Len(nmStack)] = f]

NmCall(f, child) == nmStack' = Append([nmStack EXCEPT ![Len(nmStack)] = f], child)

NmReturn == nmStack' = SubSeq(nmStack, 1, Len(nmStack) - 1)

\* the depths of the root calls explored
NmRootDepths == { 16 }

\* min(int(eval - beta) / 254, 5), the term of R that depends on the evaluation
NmEvalTerms == { 0, 5 }

\* the searches below a move: the full-depth search with newDepth = depth - 1
\* and !cutNode, and below the table move with a triple extension
\* newDepth = depth + 2
NmChildren(f) ==
    { <<f.depth - 1, ~f.cutNode>> }
    \cup (IF f.ply > 0 /\ f.depth >= 4 THEN { <<f.depth + 2, ~f.cutNode>> } ELSE {})

NmStart ==
    /\ \E d \in NmRootDepths : nmStack = << NmFrame(0, d, FALSE, FALSE) >>
    /\ nmpMinPly = 0

\* steps 1-8: depth <= 0 is qsearch, which tries no null move; a non-root
\* invocation may return before step 8; then the test of the null move, R,
\* and the search below the null move
Nm_Step8 ==
    /\ NmRunning("step8")
    /\ \E conds \in BOOLEAN, e \in NmEvalTerms :
       LET f == NmTop
           try == f.cutNode /\ ~f.prevNull /\ conds /\ f.ply >= nmpMinPly
           R == e + (f.depth \div 3) + 5
       IN  /\ conds => f.ply < MaxNmPly
           /\ ~try => e = 0
           /\ IF f.depth <= 0
              THEN ~conds /\ NmReturn
              ELSE IF try
              THEN NmCall([f EXCEPT !.pc = "null_ret", !.R = R],
                          NmFrame(f.ply + 1, f.depth - R, FALSE, TRUE))
              ELSE \/ f.ply > 0 /\ ~conds /\ NmReturn
                   \/ NmContinue([f EXCEPT !.pc = "moves"])
    /\ UNCHANGED nmpMinPly
    /\ UNCHANGED nmOthers

Nm_NullRet_noguard ==
    /\ NmRunning("null_ret")
    /\ \E pass \in BOOLEAN :
       LET f == NmTop
       IN  IF pass
           THEN IF f.depth < 15
                THEN NmReturn /\ UNCHANGED nmpMinPly
                ELSE /\ nmpMinPly' = f.ply + TruncDiv(3 * (f.depth - f.R), 4)
                     /\ NmCall([f EXCEPT !.pc = "verify_ret"],
                               NmFrame(f.ply, f.depth - f.R, FALSE, f.prevNull))
           ELSE NmContinue([f EXCEPT !.pc = "moves"]) /\ UNCHANGED nmpMinPly
    /\ UNCHANGED nmOthers

\* the null move is taken back: the value is returned, or the verification
\* search is called with nmpMinPly raised
Nm_NullRet ==
    /\ NmRunning("null_ret")
    /\ \E pass \in BOOLEAN :
       LET f == NmTop
       IN  IF pass
           THEN IF nmpMinPly # 0 \/ f.depth < 15
                THEN NmReturn /\ UNCHANGED nmpMinPly
                ELSE /\ nmpMinPly' = f.ply + TruncDiv(3 * (f.depth - f.R), 4)
                     /\ NmCall([f EXCEPT !.pc = "verify_ret"],
                               NmFrame(f.ply, f.depth - f.R, FALSE, f.prevNull))
           ELSE NmContinue([f EXCEPT !.pc = "moves"]) /\ UNCHANGED nmpMinPly
    /\ UNCHANGED nmOthers

Nm_VerifyRet_noreset ==
    /\ NmRunning("verify_ret")
    /\ UNCHANGED nmpMinPly
    /\ \E holds \in BOOLEAN :
       IF holds THEN NmReturn ELSE NmContinue([NmTop EXCEPT !.pc = "moves"])
    /\ UNCHANGED nmOthers

\* the verification search has returned: nmpMinPly is reset
Nm_VerifyRet ==
    /\ NmRunning("verify_ret")
    /\ nmpMinPly' = 0
    /\ \E holds \in BOOLEAN :
       IF holds THEN NmReturn ELSE NmContinue([NmTop EXCEPT !.pc = "moves"])
    /\ UNCHANGED nmOthers

\* the move loop: a move is made and searched, or the invocation returns
Nm_Move ==
    /\ NmRunning("moves")
    /\ LET f == NmTop
       IN  \/ NmReturn
           \/ /\ f.moves < MaxNmMoves
              /\ f.ply < MaxNmPly
              /\ \E ch \in NmChildren(f) :
                 NmCall([f EXCEPT !.moves = f.moves + 1],
                        NmFrame(f.ply + 1, ch[1], ch[2], FALSE))
    /\ UNCHANGED nmpMinPly
    /\ UNCHANGED nmOthers

(***************************************************************************)
(* search.cpp, iterative_deepening: the aspiration loop of one PV line.    *)
(* threads.stop stays clear; the value search<Root> returns is chosen by   *)
(* the environment.                                                        *)
(***************************************************************************)
AspOff == [alpha |-> 0, beta |-> 0, delta |-> 0, failedHighCnt |-> 0, bestValue |-> 0,
           adjustedDepth |-> 0, rootDepth |-> 0, searchAgainCounter |-> 0, pc |-> "off"]

\* rootMoves[pvIdx].averageScore and meanSquaredScore when the loop begins:
\* before the first search of the move, and after searches of it
AspAverages == { <<-VALUE_INFINITE, -VALUE_INFINITE * VALUE_INFINITE>>,
                 <<0, 0>>, <<120, 14400>>, <<-31000, 961000000>> }

\* the values search<Root> returns
AspResults ==
    { -VALUE_INFINITE + 1, -20000, -3000, -200, -11, 9, 125, 3000, 20000, VALUE_INFINITE - 1 }

\* rootDepth and searchAgainCounter of the iteration
AspDepths == { <<1, 0>>, <<6, 3>> }

AspStart ==
    \E avg \in AspAverages, dp \in AspDepths :
       LET delta == 10 + (Abs(avg[2]) \div 44420)
       IN  asp = [alpha |-> Max(avg[1] - delta, -VALUE_INFINITE),
                  beta |-> Min(avg[1] + delta, VALUE_INFINITE),
                  delta |-> delta, failedHighCnt |-> 0, bestValue |-> -VALUE_INFINITE,
                  adjustedDepth |-> 0, rootDepth |-> dp[1],
                  searchAgainCounter |-> dp[2], pc |-> "loop"]

\* the call of search<Root> with the adjusted depth
AspSearch ==
    /\ asp.pc = "loop"
    /\ \E v \in AspResults :
       asp' = [asp EXCEPT
                 !.adjustedDepth = Max(1, asp.rootDepth - asp.failedHighCnt
                                          - TruncDiv(3 * (asp.searchAgainCounter + 1), 4)),
                 !.bestValue = v,
                 !.pc = "searched"]
    /\ UNCHANGED asOthers

AspAdjust_nowiden ==
    /\ asp.pc = "searched"
    /\ asp' = IF asp.bestValue <= asp.alpha
              THEN [asp EXCEPT !.beta = TruncDiv(asp.alpha + asp.beta, 2),
                               !.alpha = Max(asp.bestValue, -VALUE_INFINITE),
                               !.failedHighCnt = 0,
                               !.delta = asp.delta + TruncDiv(asp.delta, 3),
                               !.pc = "loop"]
              ELSE IF asp.bestValue >= asp.beta
              THEN [asp EXCEPT !.beta = Min(asp.bestValue, VALUE_INFINITE),
                               !.failedHighCnt = asp.failedHighCnt + 1,
                               !.delta = asp.delta + TruncDiv(asp.delta, 3),
                               !.pc = "loop"]
              ELSE [asp EXCEPT !.pc = "done"]
    /\ UNCHANGED asOthers

\* after the search: the window is widened and the search repeated, or the
\* loop is left
AspAdjust ==
    /\ asp.pc = "searched"
    /\ asp' = IF asp.bestValue <= asp.alpha
              THEN [asp EXCEPT !.beta = TruncDiv(asp.alpha + asp.beta, 2),
                               !.alpha = Max(asp.bestValue - asp.delta, -VALUE_INFINITE),
                               !.failedHighCnt = 0,
                               !.delta = asp.delta + TruncDiv(asp.delta, 3),
                               !.pc = "loop"]
              ELSE IF asp.bestValue >= asp.beta
              THEN [asp EXCEPT !.beta = Min(asp.bestValue + asp.delta, VALUE_INFINITE),
                               !.failedHighCnt = asp.failedHighCnt + 1,
                               !.delta = asp.delta + TruncDiv(asp.delta, 3),
                               !.pc = "loop"]
              ELSE [asp EXCEPT !.pc = "done"]
    /\ UNCHANGED asOthers

(***************************************************************************)
(* search.cpp, iterative_deepening: the iterations, the MultiPV lines of   *)
(* each and their aspiration loops, with threads.stop set at any moment.   *)
(***************************************************************************)
IterOff == [multiPV |-> 0, limitDepth |-> 0, pvIdx |-> 0, retries |-> 0,
            lines |-> {}, sawStop |-> FALSE, failed |-> FALSE, pc |-> "off"]

IterStart ==
    \E multiPV \in 1..MaxLines, limitDepth \in 1..MaxIterDepth :
       iter = [IterOff EXCEPT !.multiPV = multiPV, !.limitDepth = limitDepth,
                              !.pc = "loop"]

\* the test of the loop, for the main worker under go depth: the lines of
\* the new iteration are yet to be searched
IterLoop ==
    /\ iter.pc = "loop"
    /\ rootDepth' = [rootDepth EXCEPT ![0] = rootDepth[0] + 1]
    /\ iter' = IF /\ rootDepth[0] + 1 < MAX_PLY
                  /\ ~stop
                  /\ ~(rootDepth[0] + 1 > iter.limitDepth)
               THEN [iter EXCEPT !.pvIdx = 0, !.lines = {}, !.sawStop = FALSE,
                                 !.pc = "line"]
               ELSE [iter EXCEPT !.pc = "done"]
    /\ UNCHANGED <<stop, completedDepth>>
    /\ UNCHANGED itOthers

\* for (pvIdx = 0; pvIdx < multiPV; ++pvIdx): the test, and the reset of the
\* aspiration window
IterLine ==
    /\ iter.pc = "line"
    /\ iter' = IF iter.pvIdx < iter.multiPV
               THEN [iter EXCEPT !.retries = 0, !.pc = "search"]
               ELSE [iter EXCEPT !.pc = "end"]
    /\ UNCHANGED <<stop, rootDepth, completedDepth>>
    /\ UNCHANGED itOthers

\* search<Root>: a call that finds threads.stop set returns at once; another
\* returns a value inside the window or fails low or high
IterSearch ==
    /\ iter.pc = "search"
    /\ IF stop
       THEN iter' = [iter EXCEPT !.sawStop = TRUE, !.failed = FALSE, !.pc = "searched"]
       ELSE \E failed \in BOOLEAN :
               /\ failed => iter.retries < MaxRetries
               /\ iter' = [iter EXCEPT !.failed = failed, !.pc = "searched"]
    /\ UNCHANGED <<stop, rootDepth, completedDepth>>
    /\ UNCHANGED itOthers

\* the aspiration loop after the search: break on threads.stop, a new search
\* after a fail low or high, or the line is complete
IterAdjust ==
    /\ iter.pc = "searched"
    /\ iter' = IF stop THEN [iter EXCEPT !.pc = "sort"]
               ELSE IF iter.failed
               THEN [iter EXCEPT !.retries = iter.retries + 1, !.pc = "search"]
               ELSE [iter EXCEPT !.lines = iter.lines \cup {iter.pvIdx}, !.pc = "sort"]
    /\ UNCHANGED <<stop, rootDepth, completedDepth>>
    /\ UNCHANGED itOthers

\* after the aspiration loop: the sort, break on threads.stop, ++pvIdx
IterSort ==
    /\ iter.pc = "sort"
    /\ iter' = IF stop THEN [iter EXCEPT !.pc = "end"]
               ELSE [iter EXCEPT !.pvIdx = iter.pvIdx + 1, !.pc = "line"]
    /\ UNCHANGED <<stop, rootDepth, completedDepth>>
    /\ UNCHANGED itOthers

IterCompleted_unconditional ==
    /\ iter.pc = "end"
    /\ completedDepth' = [completedDepth EXCEPT ![0] = rootDepth[0]]
    /\ iter' = [iter EXCEPT !.pc = "loop"]
    /\ UNCHANGED <<stop, rootDepth>>
    /\ UNCHANGED itOthers

\* the end of the iteration: completedDepth = rootDepth unless threads.stop
IterCompleted ==
    /\ iter.pc = "end"
    /\ completedDepth' = IF ~stop THEN [completedDepth EXCEPT ![0] = rootDepth[0]]
                         ELSE completedDepth
    /\ iter' = [iter EXCEPT !.pc = "loop"]
    /\ UNCHANGED <<stop, rootDepth>>
    /\ UNCHANGED itOthers

\* threads.stop is set: a stop command, or the time check
IterStop ==
    /\ iter.pc \in {"loop", "line", "search", "searched", "sort", "end"}
    /\ ~stop
    /\ stop' = TRUE
    /\ UNCHANGED <<rootDepth, completedDepth>>
    /\ UNCHANGED itVars
    /\ UNCHANGED itOthers

(***************************************************************************)
(* search.cpp: check_time of the main worker stores threads.abortedSearch  *)
(* and threads.stop; another worker reads them at the end of its           *)
(* iterations.  Every store and every read is a step of its own.           *)
(***************************************************************************)
FlagsOff == [ct |-> "off", hpc |-> "off", iters |-> 0, readStop |-> FALSE,
             readAborted |-> FALSE, completed |-> FALSE]

FlagsStart == flg = [FlagsOff EXCEPT !.ct = "search", !.hpc = "loop"]

\* check_time, the condition holds: in
\*   worker.threads.stop = worker.threads.abortedSearch = true;
\* the right assignment is evaluated first
CheckTimeStoreAborted ==
    /\ flg.ct = "search"
    /\ abortedSearch' = TRUE
    /\ flg' = [flg EXCEPT !.ct = "aborted_stored"]
    /\ UNCHANGED stop
    /\ UNCHANGED fgOthers

\* then the value of the right assignment is stored in threads.stop
CheckTimeStoreStop ==
    /\ flg.ct = "aborted_stored"
    /\ stop' = TRUE
    /\ flg' = [flg EXCEPT !.ct = "returned"]
    /\ UNCHANGED abortedSearch
    /\ UNCHANGED fgOthers

\* the stop command sets threads.stop alone
FlagsUciStop ==
    /\ flg.ct # "off"
    /\ ~stop
    /\ stop' = TRUE
    /\ UNCHANGED <<abortedSearch, flg>>
    /\ UNCHANGED fgOthers

\* the other worker: the test of the loop reads threads.stop
WorkerLoop ==
    /\ flg.hpc = "loop"
    /\ flg' = IF stop \/ flg.iters >= MaxFlagIters
              THEN [flg EXCEPT !.readStop = stop, !.hpc = "done"]
              ELSE [flg EXCEPT !.readStop = stop, !.iters = flg.iters + 1,
                               !.completed = FALSE, !.hpc = "search"]
    /\ UNCHANGED <<stop, abortedSearch>>
    /\ UNCHANGED fgOthers

\* the searches of the iteration, up to the sort after the last one
WorkerSearch ==
    /\ flg.hpc = "search"
    /\ flg' = [flg EXCEPT !.hpc = "break"]
    /\ UNCHANGED <<stop, abortedSearch>>
    /\ UNCHANGED fgOthers

\* if (threads.stop) break;
WorkerBreak ==
    /\ flg.hpc = "break"
    /\ flg' = [flg EXCEPT !.readStop = stop, !.hpc = "end"]
    /\ UNCHANGED <<stop, abortedSearch>>
    /\ UNCHANGED fgOthers

\* if (!threads.stop) completedDepth = rootDepth;
WorkerCompleted ==
    /\ flg.hpc = "end"
    /\ flg' = [flg EXCEPT !.readStop = stop, !.completed = ~stop, !.hpc = "restore"]
    /\ UNCHANGED <<stop, abortedSearch>>
    /\ UNCHANGED fgOthers

\* if (threads.abortedSearch && ...): the read of threads.abortedSearch
WorkerRestore ==
    /\ flg.hpc = "restore"
    /\ flg' = [flg EXCEPT !.readAborted = abortedSearch, !.hpc = "loop"]
    /\ UNCHANGED <<stop, abortedSearch>>
    /\ UNCHANGED fgOthers

(***************************************************************************)
(* timeman.cpp, TimeManagement::init: the moves to go, the time left and   *)
(* the divisors of the budget formulas.  The budgets themselves (log10,    *)
(* pow) are not computed.                                                  *)
(***************************************************************************)
TimeOff == [time |-> 0, inc |-> 0, movestogo |-> 0, moveOverhead |-> 0, npmsec |-> 0,
            mtg |-> 0, timeLeft |-> 0, divisors |-> {}, pc |-> "off"]

\* go wtime .. winc .. movestogo .., the options Move Overhead and nodestime
ClockTimes == { 0, 1, 10, 19, 20, 39, 40, 999, 1000, 60000 }
ClockIncs == { 0, 1, 100, 1200, 2000 }
MovesToGo == { 0, 1, 5, 60, 100 }
MoveOverheads == { 0, 10, 5000 }
NodesTimes == { 0, 3 }

TimeStart ==
    \E time \in ClockTimes, inc \in ClockIncs, movestogo \in MovesToGo,
       moveOverhead \in MoveOverheads, npmsec \in NodesTimes :
       tmi = [TimeOff EXCEPT !.time = time, !.inc = inc, !.movestogo = movestogo,
                             !.moveOverhead = moveOverhead, !.npmsec = npmsec,
                             !.pc = "init"]

\* mtg = scaledTime * 0.05: the product of an integer below 1000 and the
\* double 0.05, truncated
ShrunkMtg(scaledTime) == scaledTime \div 20

\* double(mtg) / scaledInc > 0.05; the division by scaledInc = 0 gives
\* +infinity
ShortOnInc(mtg, scaledInc) == scaledInc = 0 \/ 20 * mtg > scaledInc

\* TimeManagement::init with availableNodes = -1
TimeManagementInit(in) ==
    LET useNodesTime == in.npmsec # 0
        time == IF useNodesTime THEN in.npmsec * in.time ELSE in.time
        inc == IF useNodesTime THEN in.inc * in.npmsec ELSE in.inc
        moveOverhead == IF useNodesTime THEN in.moveOverhead * in.npmsec
                        ELSE in.moveOverhead
        scaleFactor == IF useNodesTime THEN in.npmsec ELSE 1
        scaledTime == time \div scaleFactor
        scaledInc == inc \div scaleFactor
        mtg0 == IF in.movestogo # 0 THEN Min(in.movestogo, 60) ELSE 60
        mtg == IF scaledTime < 1000 /\ ShortOnInc(mtg0, scaledInc)
               THEN ShrunkMtg(scaledTime) ELSE mtg0
        timeLeft == Max(1, time + inc * (mtg - 1) - moveOverhead * (2 + mtg))
    IN  IF in.time = 0
        THEN [in EXCEPT !.pc = "returned"]
        ELSE [in EXCEPT !.mtg = mtg, !.timeLeft = timeLeft,
                        !.divisors = {scaleFactor, timeLeft}
                                     \cup (IF in.movestogo # 0 THEN {mtg} ELSE {}),
                        !.pc = "done"]

\* start_searching calls tm.init
TimeInit ==
    /\ tmi.pc = "init"
    /\ tmi' = TimeManagementInit(tmi)
    /\ UNCHANGED tiOthers

(***************************************************************************)
(* bitboard.cpp, init_magics: the enumeration of the subsets of a mask.    *)
(* Here a bitboard is a number; the bits of (b - mask) & mask do not       *)
(* depend on the bits above the highest square of the mask, so the         *)
(* unsigned subtraction is taken modulo 2^RipplerBits.                     *)
(***************************************************************************)
RECURSIVE Pow2(_)
Pow2(n) == IF n = 0 THEN 1 ELSE 2 * Pow2(n - 1)

RECURSIVE popcount(_)
popcount(x) == IF x = 0 THEN 0 ELSE (x % 2) + popcount(x \div 2)

RECURSIVE BitAnd(_, _)
BitAnd(x, y) ==
    IF x = 0 \/ y = 0 THEN 0
    ELSE (x % 2) * (y % 2) + 2 * BitAnd(x \div 2, y \div 2)

RipplerWidth == Pow2(RipplerBits)

RipplerOff == [mask |-> 0, b |-> 0, size |-> 0, stored |-> <<>>, pc |-> "off"]

\* b = size = 0 before the loop, for a mask
RipplerStart ==
    \E mask \in 0..(RipplerWidth - 1) :
       crp = [RipplerOff EXCEPT !.mask = mask, !.pc = "loop"]

CarryRippler_increment(b, mask) == BitAnd((b + 1) % RipplerWidth, mask)

\* b = (b - m.mask) & m.mask
CarryRippler(b, mask) == BitAnd((b - mask) % RipplerWidth, mask)

\* one turn of the do-while loop: the entry of b is stored, size++, the next
\* subset, and the test while (b)
RipplerStep ==
    /\ crp.pc = "loop"
    /\ LET next == CarryRippler(crp.b, crp.mask)
       IN  crp' = [crp EXCEPT !.stored = Append(crp.stored, crp.b),
                              !.size = crp.size + 1,
                              !.b = next,
                              !.pc = IF next # 0 THEN "loop" ELSE "done"]
    /\ UNCHANGED crOthers

(***************************************************************************)
(* Specifications.  Each one starts the variables of the others in a       *)
(* fixed state and leaves them unchanged.                                  *)
(***************************************************************************)
CoIdle(rd) ==
    /\ limits = Go(FALSE, FALSE, 0, 0, 0, FALSE, 0)
    /\ hasMoves = FALSE
    /\ stop = FALSE
    /\ abortedSearch = FALSE
    /\ ponder = FALSE
    /\ stopOnPonderhit = FALSE
    /\ callsCnt = 0
    /\ mainPc = "done"
    /\ wpc = [w \in Workers |-> "idle"]
    /\ rootDepth = [w \in Workers |-> rd]
    /\ completedDepth = [w \in Workers |-> 0]
    /\ frontScore = -VALUE_INFINITE
    /\ frontExact = TRUE
    /\ bestThread = -1
    /\ bestmove = -1
    /\ lastInfo = InfoNone
    /\ cmd = FALSE
    /\ ev = "step"
    /\ ct = NoCt

CoParked == CoIdle(0)

SeParked ==
    /\ stack = <<>>
    /\ ssEval = [p \in -2..MaxPlyModel |-> 0]
    /\ ssExcl = [p \in 0..MaxPlyModel |-> FALSE]
    /\ ssNull = [p \in -1..MaxPlyModel |-> FALSE]
    /\ nodes = 0
    /\ doMoves = 0
    /\ ponderMoves = 0
    /\ doNulls = 0
    /\ posDepth = 0
    /\ nmpMinPly = 0
    /\ retVal = VALUE_NONE
    /\ lastRet = NoRet
    /\ lastStore = NoStore
    /\ ttWrite = NoWrite
    /\ calls = 0
    /\ sePc = "off"

RtParked ==
    /\ rootMoves = <<>>
    /\ lastBestPV = 0
    /\ lastBestScore = -VALUE_INFINITE
    /\ window = [alpha |-> -VALUE_INFINITE, beta |-> VALUE_INFINITE, delta |-> 10]
    /\ rs = NoRs
    /\ interrupted = FALSE
    /\ completedFront = 0
    /\ emitted = 0
    /\ rootPc = "off"

HiParked ==
    /\ hD = 1
    /\ hEntry = [c \in HistCells |-> 0]
    /\ hBonus = 0
    /\ hPc = "off"

BBParked ==
    /\ bbOcc = {}
    /\ bbPt = "none"
    /\ bbKind = "off"
    /\ bbAtt = [s \in Squares |-> {}]

LnParked ==
    /\ lnS1 = 0
    /\ lnLine = [s \in Squares |-> {}]
    /\ lnBetween = [s \in Squares |-> {}]
    /\ lnPc = "off"

UcParked ==
    /\ cliArgc = 1
    /\ uciCmd = <<>>
    /\ engine = NewEngine
    /\ uciBefore = NewEngine
    /\ uciOut = "none"
    /\ uciFresh = FALSE
    /\ uciTurns = 0
    /\ uciPc = "off"

IdParked ==
    /\ idLimitDepth = 0
    /\ idMainThread = TRUE
    /\ idRan = 0
    /\ idLastDepth = 0
    /\ idPc = "off"

NmParked == nmStack = <<>>

AsParked == asp = AspOff

ItParked == iter = IterOff

FgParked == flg = FlagsOff

TiParked == tmi = TimeOff

CrParked == crp = RipplerOff

\* the parts added to the search core, but for part g
ExtParkedExcept(g) ==
    /\ IF g = "nm" THEN TRUE ELSE NmParked
    /\ IF g = "as" THEN TRUE ELSE AsParked
    /\ IF g = "it" THEN TRUE ELSE ItParked
    /\ IF g = "fg" THEN TRUE ELSE FgParked
    /\ IF g = "ti" THEN TRUE ELSE TiParked
    /\ IF g = "cr" THEN TRUE ELSE CrParked

ExtParked == ExtParkedExcept("none")

Aux1Parked == HiParked /\ BBParked /\ LnParked /\ UcParked /\ IdParked

AuxParked == Aux1Parked /\ ExtParked

TTParked ==
    /\ ttV = 0
    /\ ttPly = 0
    /\ ttR60 = 0
    /\ ttEntry = VALUE_NONE
    /\ ttOut = VALUE_NONE
    /\ ttPc = "off"

Init == CoStart /\ TTParked /\ SeParked /\ RtParked /\ AuxParked

Next ==
    \/ MainStart
    \/ \E w \in Workers : IterBegin(w)
    \/ \E w \in Workers : RootSearch(w)
    \/ \E w \in Workers : IterEnd(w)
    \/ CheckTime
    \/ CheckTimeRun
    \/ UciStop
    \/ UciPonderhit
    \/ MainStop
    \/ MainJoin
    \/ MainSelect
    \/ MainReemitPV
    \/ MainBestmove

Spec == Init /\ [][Next]_vars

TTInit == TTStart /\ CoParked /\ SeParked /\ RtParked /\ AuxParked

TTNext == TTSave \/ TTSaveEvalOnly \/ TTProbe

SpecTT == TTInit /\ [][TTNext]_vars

\* iterative_deepening has set the sentinel frames (ss - 1), (ss - 2) to
\* staticEval = VALUE_NONE, the other frames are zero; it calls search<Root>
\* with the aspiration window and the adjusted depth
SearchInit ==
    /\ \E rc \in RootCalls :
        /\ stack = << Frame("search", "Root", 0, rc.window[1], rc.window[2], rc.depth,
                             FALSE, rc.inCheck, 0) >>
        /\ CoIdle(rc.depth)
    /\ ssEval = [p \in -2..MaxPlyModel |-> IF p < 0 THEN VALUE_NONE ELSE 0]
    /\ ssExcl = [p \in 0..MaxPlyModel |-> FALSE]
    /\ ssNull = [p \in -1..MaxPlyModel |-> FALSE]
    /\ nodes = 0
    /\ doMoves = 0
    /\ ponderMoves = 0
    /\ doNulls = 0
    /\ posDepth = 0
    /\ nmpMinPly = 0
    /\ retVal = VALUE_NONE
    /\ lastRet = NoRet
    /\ lastStore = NoStore
    /\ ttWrite = NoWrite
    /\ calls = 0
    /\ sePc = "search"
    /\ TTParked
    /\ RtParked
    /\ AuxParked

SearchNext ==
    \/ Search_Entry
    \/ Search_RuleJudge
    \/ Search_Poll
    \/ Search_TT
    \/ Search_StaticEval
    \/ Search_Razoring
    \/ Search_RazoringRet
    \/ Search_Futility
    \/ Search_NullMove
    \/ Search_NullRet
    \/ Search_VerifyRet
    \/ Search_IIR
    \/ Search_ProbCut
    \/ Search_ProbCutNext
    \/ Search_ProbCutQRet
    \/ Search_ProbCutSRet
    \/ Search_Step11
    \/ Search_NextMove
    \/ Search_SingularRet
    \/ Search_LmrRet
    \/ Search_FullRet
    \/ Search_PvRet
    \/ Search_After
    \/ QSearch_Entry
    \/ QSearch_Eval
    \/ QSearch_NextMove
    \/ QSearch_MoveRet
    \/ QSearch_After
    \/ ExtractPonder
    \/ RaiseStop

SpecSearch == SearchInit /\ [][SearchNext]_vars

RootInit == RootStart /\ CoParked /\ TTParked /\ SeParked /\ AuxParked

RootNext ==
    \/ RootLoop
    \/ RootSearchMove
    \/ RootSearchReturn
    \/ RootSort
    \/ RootIterEnd
    \/ RootStop
    \/ RootFinish

SpecRoot == RootInit /\ [][RootNext]_vars

CoreParked == CoParked /\ TTParked /\ SeParked /\ RtParked

HistInit == HistStart /\ CoreParked /\ BBParked /\ LnParked /\ UcParked /\ IdParked /\ ExtParked

HistNext == update_quiet_histories

SpecHist == HistInit /\ [][HistNext]_vars

BBInit == BBStart /\ CoreParked /\ HiParked /\ LnParked /\ UcParked /\ IdParked /\ ExtParked

BBNext == BBReference \/ BBLookup

SpecBB == BBInit /\ [][BBNext]_vars

LinesInit == LinesStart /\ CoreParked /\ HiParked /\ BBParked /\ UcParked /\ IdParked /\ ExtParked

LinesNext == Bitboards_init

SpecLines == LinesInit /\ [][LinesNext]_vars

UciInit == UciStart /\ CoreParked /\ HiParked /\ BBParked /\ LnParked /\ IdParked /\ ExtParked

UciNext == UciLoop \/ UciSearchDone

SpecUci == UciInit /\ [][UciNext]_vars

NmInit ==
    NmStart /\ CoParked /\ TTParked /\ SeParked /\ RtParked /\ Aux1Parked
    /\ ExtParkedExcept("nm")

NmNext == Nm_Step8 \/ Nm_NullRet \/ Nm_VerifyRet \/ Nm_Move

SpecNmp == NmInit /\ [][NmNext]_vars

AspInit == AspStart /\ CoreParked /\ Aux1Parked /\ ExtParkedExcept("as")

AspNext == AspSearch \/ AspAdjust

\* the worker's thread runs: the loop goes on until it is left
SpecAsp == AspInit /\ [][AspNext]_vars /\ WF_vars(AspNext)

IterInit ==
    IterStart /\ CoIdle(0) /\ TTParked /\ SeParked /\ RtParked /\ Aux1Parked
    /\ ExtParkedExcept("it")

IterNext ==
    IterLoop \/ IterLine \/ IterSearch \/ IterAdjust \/ IterSort \/ IterCompleted \/ IterStop

SpecIter == IterInit /\ [][IterNext]_vars

FlagsInit ==
    FlagsStart /\ CoIdle(0) /\ TTParked /\ SeParked /\ RtParked /\ Aux1Parked
    /\ ExtParkedExcept("fg")

FlagsNext ==
    \/ CheckTimeStoreAborted
    \/ CheckTimeStoreStop
    \/ FlagsUciStop
    \/ WorkerLoop
    \/ WorkerSearch
    \/ WorkerBreak
    \/ WorkerCompleted
    \/ WorkerRestore

SpecFlags == FlagsInit /\ [][FlagsNext]_vars

TimeSpecInit == TimeStart /\ CoreParked /\ Aux1Parked /\ ExtParkedExcept("ti")

TimeNext == TimeInit

SpecTime == TimeSpecInit /\ [][TimeNext]_vars

RipplerInit == RipplerStart /\ CoreParked /\ Aux1Parked /\ ExtParkedExcept("cr")

RipplerNext == RipplerStep

\* init_magics runs: the loop goes on until its test fails
SpecRippler == RipplerInit /\ [][RipplerNext]_vars /\ WF_vars(RipplerStep)

DepthInit ==
    DepthStart /\ CoIdle(0) /\ TTParked /\ SeParked /\ RtParked
    /\ HiParked /\ BBParked /\ LnParked /\ UcParked /\ ExtParked

DepthNext == DepthTest \/ DepthBody \/ DepthStop

\* the worker's thread runs: the loop test and the body are taken in turn
SpecDepth ==
    DepthInit /\ [][DepthNext]_vars /\ WF_vars(DepthTest) /\ WF_vars(DepthBody)

(***************************************************************************)
(* C3.  While the search was started with ponder or infinite and no        *)
(* explicit stop or ponderhit command has arrived, no internal condition   *)
(* sets the stop flag and no bestmove is emitted.                          *)
(***************************************************************************)
C3_NoInternalStop ==
    ((limits.ponderMode \/ limits.infinite) /\ ~cmd) => (~stop /\ bestmove = -1)

(***************************************************************************)
(* C4.  check_time sets the stop flag only if completedDepth >= 1 and      *)
(* time management is in use with elapsed > maximum or stopOnPonderhit     *)
(* set, or a movetime is given and elapsed >= movetime, or a node limit    *)
(* is given and the node count has reached it; it never sets the stop      *)
(* flag while ponder is true.                                              *)
(***************************************************************************)
C4_StopCondition ==
    /\ completedDepth[0] >= 1
    /\ ~ponder
    /\ \/ limits.useTM /\ ct'.elapsed > TmMaximum
       \/ limits.useTM /\ stopOnPonderhit
       \/ limits.movetime # 0 /\ ct'.elapsed >= limits.movetime
       \/ limits.nodes # 0 /\ ct'.nodes >= limits.nodes

C4_CheckTime ==
    [][ (\/ ev' = "check_time_stop"
         \/ ev' = "check_time" /\ (stop' # stop \/ abortedSearch' # abortedSearch))
        => C4_StopCondition ]_vars

\* after a ponderhit, check_time stops a search that ran over its optimum
\* time while pondering, although the maximum time has not passed
C4_Witness ==
    /\ ev = "check_time_stop"
    /\ stop
    /\ abortedSearch
    /\ limits.ponderMode
    /\ ~ponder
    /\ stopOnPonderhit
    /\ ct.elapsed <= TmMaximum

(***************************************************************************)
(* C5.  The main worker selects the best worker, and reads another         *)
(* worker's root moves, only after stop has been set and                   *)
(* wait_for_search_finished has returned, when no helper is searching;     *)
(* and if the selected worker is not the main worker, its PV is the last   *)
(* info line before the bestmove line.                                     *)
(***************************************************************************)
C5_Joined == stop /\ \A h \in Helpers : wpc[h] \in {"idle", "done"}

C5_BestThread ==
    /\ mainPc \in {"select", "reemit", "emit", "done"} => C5_Joined
    /\ bestThread # -1 => mainPc \in {"reemit", "emit", "done"}
    /\ bestmove # -1 => /\ mainPc = "done"
                        /\ bestmove = bestThread
                        /\ bestThread # 0 => lastInfo = InfoPV(bestThread)

\* a helper that completed an iteration is selected, after the main worker
\* reported its own PV
C5_Witness ==
    /\ mainPc = "done"
    /\ bestmove = 1
    /\ lastInfo = InfoPV(1)
    /\ completedDepth[1] >= 1
    /\ completedDepth[0] >= 1

(***************************************************************************)
(* C8.  Round trip: for every valid v and ply in 0..MAX_PLY with           *)
(* |v| <= VALUE_MATE - ply, value_from_tt(value_to_tt(v, ply), ply, r60)   *)
(* is v whenever v is not decisive, or v is decisive and                   *)
(* VALUE_MATE - |value_to_tt(v, ply)| <= 120 - r60.                        *)
(***************************************************************************)
C8_AwayFromClamp ==
    \/ ~is_decisive(ttV)
    \/ VALUE_MATE - Abs(ttEntry) <= 120 - ttR60

C8_RoundTrip ==
    (/\ ttPc = "roundtrip"
     /\ is_valid(ttV)
     /\ Abs(ttV) <= VALUE_MATE - ttPly
     /\ C8_AwayFromClamp)
    => ttOut = ttV

\* a decisive score saved at a non-zero ply (so that the entry differs from
\* the value) and read back unclamped
C8_Witness ==
    /\ ttPc = "roundtrip"
    /\ is_loss(ttV)
    /\ ttPly > 0
    /\ Abs(ttV) <= VALUE_MATE - ttPly
    /\ VALUE_MATE - Abs(ttEntry) <= 120 - ttR60
    /\ ttEntry # ttV
    /\ ttOut = ttV

(***************************************************************************)
(* C9.  As claimed: a stored win score v with VALUE_MATE - v > 120 - r60   *)
(* is returned as exactly +VALUE_MATE_IN_MAX_PLY, a stored loss score v    *)
(* with VALUE_MATE + v > 120 - r60 as exactly -VALUE_MATE_IN_MAX_PLY, and  *)
(* VALUE_NONE is passed through.                                           *)
(***************************************************************************)
C9_Probed == ttPc \in {"roundtrip", "read"}

C9_WinClamped == is_valid(ttEntry) /\ is_win(ttEntry) /\ VALUE_MATE - ttEntry > 120 - ttR60

C9_LossClamped == is_valid(ttEntry) /\ is_loss(ttEntry) /\ VALUE_MATE + ttEntry > 120 - ttR60

C9_AsClaimed ==
    C9_Probed =>
        /\ C9_WinClamped => ttOut = VALUE_MATE_IN_MAX_PLY
        /\ C9_LossClamped => ttOut = -VALUE_MATE_IN_MAX_PLY
        /\ ~is_valid(ttEntry) => ttOut = VALUE_NONE

(***************************************************************************)
(* C9 as amended: the clamped results are the highest non-mate score       *)
(* VALUE_MATE_IN_MAX_PLY - 1 and the lowest non-mated score                *)
(* VALUE_MATED_IN_MAX_PLY + 1; VALUE_NONE is passed through.               *)
(***************************************************************************)
C9_Clamp ==
    C9_Probed =>
        /\ C9_WinClamped => ttOut = VALUE_MATE_IN_MAX_PLY - 1
        /\ C9_LossClamped => ttOut = VALUE_MATED_IN_MAX_PLY + 1
        /\ ~is_valid(ttEntry) => ttOut = VALUE_NONE

C9_Witness ==
    /\ ttPc = "roundtrip"
    /\ C9_WinClamped
    /\ ttOut = VALUE_MATE_IN_MAX_PLY - 1
    /\ ~is_win(ttOut)


(***************************************************************************)
(* Claims about search and qsearch (SpecSearch).                           *)
(***************************************************************************)
SearchFrames == { i \in DOMAIN stack : stack[i].fn = "search" }

\* C1: on every exit of an invocation of search or qsearch, the invocation
\* has made as many undo_move calls as do_move calls and as many
\* undo_null_move calls as do_null_move calls, and the depth of the
\* position's move stack at the return equals its depth at the entry.
C1_Balanced ==
    lastRet.fn # "none" =>
        /\ lastRet.dm = lastRet.um
        /\ lastRet.dn = lastRet.un
        /\ lastRet.posOut = lastRet.posIn

\* an invocation that made a move returns because it saw threads.stop
C1_Witness == lastRet.why = "stop" /\ lastRet.dm >= 1 /\ lastRet.dm = lastRet.um

\* C6 as stated: at the end of a search the node counter equals the number
\* of do_move calls made on the position.
C6_AsClaimed == sePc = "done" => nodes = doMoves

\* C6: when search returns, the node counter equals the number of do_move
\* calls made by search and qsearch; at the end, the do_move of
\* extract_ponder_from_tt is the only call the counter has not counted.
C6_NodeAccounting ==
    /\ sePc = "returned" => (nodes = doMoves /\ ponderMoves = 0)
    /\ sePc = "done" => (nodes + ponderMoves = doMoves /\ ponderMoves <= 1)

C6_Witness == sePc = "done" /\ nodes = MaxNodes /\ ponderMoves = 1

\* C7 as stated: at every point of search, -VALUE_INFINITE <= alpha < beta
\* <= VALUE_INFINITE.
C7_AsClaimed ==
    \A i \in SearchFrames :
        /\ -VALUE_INFINITE <= stack[i].alpha
        /\ stack[i].alpha < stack[i].beta
        /\ stack[i].beta <= VALUE_INFINITE

\* C7: at every point of search alpha and beta lie in [-VALUE_INFINITE,
\* VALUE_INFINITE]; alpha < beta holds at every point except between the
\* tightening of step 2 and the test of step 3, where the invocation only
\* polls threads.stop and returns or reaches the test.
C7_Window ==
    \A i \in SearchFrames :
        /\ -VALUE_INFINITE <= stack[i].alpha
        /\ stack[i].alpha <= VALUE_INFINITE
        /\ -VALUE_INFINITE <= stack[i].beta
        /\ stack[i].beta <= VALUE_INFINITE
        /\ stack[i].pc # "poll" => stack[i].alpha < stack[i].beta

\* an invocation whose alpha was raised to VALUE_DRAW - 1 has passed step 3
C7_Witness ==
    \E i \in SearchFrames :
        /\ stack[i].ply >= 1
        /\ stack[i].pc = "tt"
        /\ stack[i].alpha = VALUE_DRAW - 1
        /\ stack[i].beta = mate_in(stack[i].ply + 1)

InEvalRange(v) == VALUE_MATED_IN_MAX_PLY + 1 <= v /\ v <= VALUE_MATE_IN_MAX_PLY - 1

\* C10 as stated: every value stored into a frame's staticEval is in the
\* range [VALUE_MATED_IN_MAX_PLY + 1, VALUE_MATE_IN_MAX_PLY - 1].
C10_AsClaimed == lastStore.path # "none" => InEvalRange(lastStore.val)

\* C10: every value stored into a frame's staticEval is in the range
\* [VALUE_MATED_IN_MAX_PLY + 1, VALUE_MATE_IN_MAX_PLY - 1], except that the
\* in-check reuse of (ss-2)->staticEval stores VALUE_NONE when that frame
\* holds it; Eval::evaluate returns a value in the range.
C10_StaticEval ==
    /\ lastStore.path \in {"tt", "evaluate", "null"} => InEvalRange(lastStore.val)
    /\ lastStore.path = "incheck" =>
           (InEvalRange(lastStore.val) \/ lastStore.val = VALUE_NONE)
    /\ lastStore.path = "evaluate" => InEvalRange(lastStore.raw)
    /\ \A p \in DOMAIN ssEval : InEvalRange(ssEval[p]) \/ ssEval[p] = VALUE_NONE

\* the correction pushed an evaluation at the upper end over the range and
\* the stored value is the end of the range
C10_Witness ==
    /\ lastStore.path = "evaluate"
    /\ lastStore.raw = VALUE_MATE_IN_MAX_PLY - 1
    /\ lastStore.val = VALUE_MATE_IN_MAX_PLY - 1

(***************************************************************************)
(* Claims about iterative_deepening (SpecRoot).                            *)
(***************************************************************************)
\* C2 as stated: when threads.stop is raised in the middle of an iteration,
\* the move of the bestmove line is the first root move as it stood at the
\* end of the last iteration the worker completed.
C2_AsClaimed ==
    (rootPc = "done" /\ interrupted /\ completedDepth[0] >= 1) =>
        emitted = completedFront

(***************************************************************************)
(* C11.  A history cell never leaves its limit: whatever bonuses the       *)
(* gravity update is handed, |entry| <= D holds for every cell.            *)
(***************************************************************************)
C11_Bounded == \A c \in HistCells : Abs(hEntry[c]) <= hD

\* a bonus beyond the limit has been applied and has driven a cell that
\* started elsewhere onto the limit
C11_Witness ==
    /\ hPc = "cell"
    /\ hD > 1
    /\ Abs(hBonus) > hD
    /\ Abs(hEntry.main) = hD
    /\ Abs(hEntry.cont) = hD
    /\ hEntry.lowPly # hEntry.main

(***************************************************************************)
(* Geometry of the board in coordinates, for the statements about the      *)
(* attack sets.                                                            *)
(***************************************************************************)
\* s and t share a rank or a file
Aligned(s, t) == s # t /\ (file_of(s) = file_of(t) \/ rank_of(s) = rank_of(t))

\* the squares strictly between two aligned squares
Segment ==
    [s \in Squares |-> [t \in Squares |->
        IF ~Aligned(s, t) THEN {}
        ELSE { u \in Squares :
                 /\ u # s /\ u # t
                 /\ Aligned(s, u) /\ Aligned(u, t)
                 /\ Min(file_of(s), file_of(t)) <= file_of(u)
                 /\ file_of(u) <= Max(file_of(s), file_of(t))
                 /\ Min(rank_of(s), rank_of(t)) <= rank_of(u)
                 /\ rank_of(u) <= Max(rank_of(s), rank_of(t)) }]]

\* the squares aligned with s
LineOf == [s \in Squares |-> { t \in Squares : Aligned(s, t) }]

\* the L-shape destinations of s on the board
LShapes ==
    [s \in Squares |->
        { t \in Squares :
            LET df == Abs(file_of(t) - file_of(s))
                dr == Abs(rank_of(t) - rank_of(s))
            IN  (df = 1 /\ dr = 2) \/ (df = 2 /\ dr = 1) }]

Sign(x) == IF x > 0 THEN 1 ELSE IF x < 0 THEN -1 ELSE 0

\* the leg of the L-shape step from s to t: next to s, in the direction of
\* the two-step component
LegSquare(s, t) ==
    LET df == file_of(t) - file_of(s)
        dr == rank_of(t) - rank_of(s)
    IN  IF Abs(dr) = 2 THEN make_square(file_of(s), rank_of(s) + Sign(dr))
        ELSE make_square(file_of(s) + Sign(df), rank_of(s))

(***************************************************************************)
(* C12.  Rook attacks are symmetric: for distinct squares s1, s2 and any   *)
(* occupancy, s2 is in the rook attack set of s1 iff s1 is in the rook     *)
(* attack set of s2.                                                       *)
(***************************************************************************)
C12_RookSymmetric ==
    (bbKind = "reference" /\ bbPt = "ROOK") =>
        \A s1 \in Squares : \A s2 \in Squares \ {s1} :
            (s2 \in bbAtt[s1]) <=> (s1 \in bbAtt[s2])

\* an empty square and an occupied one attack each other, and a piece
\* between two squares of a rank keeps them from attacking each other
C12_Witness ==
    /\ bbKind = "reference" /\ bbPt = "ROOK"
    /\ \E s1 \in Squares \ bbOcc : \E s2 \in bbOcc :
        /\ s2 \in bbAtt[s1]
        /\ s1 \in bbAtt[s2]
        /\ \E s3 \in Squares \ {s1} :
            /\ rank_of(s3) = rank_of(s1)
            /\ s3 \notin bbAtt[s1]
            /\ s1 \notin bbAtt[s3]

(***************************************************************************)
(* C13.  The cannon attack set as stated: in each direction the empty      *)
(* squares in front of the screen, not the screen, and behind the screen   *)
(* only the next occupied square.                                          *)
(***************************************************************************)
C13_AsClaimed ==
    (bbKind = "reference" /\ bbPt = "CANNON") =>
        \A s \in Squares :
            bbAtt[s] = { t \in LineOf[s] :
                           LET n == Cardinality(Segment[s][t] \cap bbOcc)
                           IN  \/ n = 0 /\ t \notin bbOcc
                               \/ n = 1 /\ t \in bbOcc }

(***************************************************************************)
(* C13 (amended).  In each direction the cannon attack set holds no square *)
(* up to and including the screen, and behind the screen every square up   *)
(* to and including the next occupied square: exactly the squares with     *)
(* one occupied square strictly between them and the cannon.               *)
(***************************************************************************)
C13_Cannon ==
    (bbKind = "reference" /\ bbPt = "CANNON") =>
        \A s \in Squares :
            bbAtt[s] = { t \in LineOf[s] : Cardinality(Segment[s][t] \cap bbOcc) = 1 }

\* a cannon with a screen and a second piece behind it: the empty square
\* in front of the screen is not attacked, an empty square behind it is,
\* the second piece is, and the square behind the second piece is not
C13_Witness ==
    /\ bbKind = "reference" /\ bbPt = "CANNON"
    /\ \E s \in Squares \ bbOcc :
        /\ \E t \in LineOf[s] \ bbOcc :
             Segment[s][t] \cap bbOcc = {} /\ t \notin bbAtt[s]
        /\ \E t \in bbAtt[s] : t \notin bbOcc
        /\ \E t \in bbAtt[s] : t \in bbOcc
        /\ \E t \in LineOf[s] \ bbAtt[s] : Cardinality(Segment[s][t] \cap bbOcc) = 2

(***************************************************************************)
(* C14.  t is in the knight attack set of s iff t is an L-shape            *)
(* destination of s on the board and the leg square of the step is empty.  *)
(***************************************************************************)
C14_Knight ==
    (bbKind = "reference" /\ bbPt = "KNIGHT") =>
        \A s \in Squares :
            bbAtt[s] = { t \in LShapes[s] : LegSquare(s, t) \notin bbOcc }

\* a knight with one leg blocked and another step free
C14_Witness ==
    /\ bbKind = "reference" /\ bbPt = "KNIGHT"
    /\ \E s \in Squares :
        /\ \E t \in LShapes[s] : LegSquare(s, t) \in bbOcc /\ t \notin bbAtt[s]
        /\ \E t \in LShapes[s] : t \in bbAtt[s]
        /\ Cardinality(LShapes[s]) < 8

(***************************************************************************)
(* C15.  The knight-to attack set is the inverse of the knight attack set: *)
(* t is in knight_to(s) iff s is in knight(t), for the same occupancy.     *)
(***************************************************************************)
C15_KnightTo ==
    (bbKind = "reference" /\ bbPt = "KNIGHT_TO") =>
        \A t \in Squares :
            { s \in Squares : t \in bbAtt[s] } = lame_leaper_attack("KNIGHT", t, bbOcc)

\* a knight on t attacks s although a knight on s would not attack t
C15_Witness ==
    /\ bbKind = "reference" /\ bbPt = "KNIGHT_TO"
    /\ \E s \in Squares : \E t \in bbAtt[s] :
        /\ s \notin bbAtt[t]
        /\ s \in lame_leaper_attack("KNIGHT", t, bbOcc)
        /\ t \notin lame_leaper_attack("KNIGHT", s, bbOcc)

(***************************************************************************)
(* C17.  For each of the five tables the lookup attacks_bb(pt, s, occ),    *)
(* which reads the entry of occ & mask, is the reference attack set of the *)
(* full occupancy.                                                         *)
(***************************************************************************)
C17_Lookup ==
    bbKind = "lookup" =>
        \A s \in Squares : bbAtt[s] = Reference(bbPt, s, bbOcc)

\* a lookup of the knight-to table whose blocking square lies on an edge
\* of the board that the other tables leave out of their masks
C17_Witness ==
    /\ bbKind = "lookup" /\ bbPt = "KNIGHT_TO"
    /\ \E s \in Squares :
        /\ \E e \in bbOcc \cap magics["KNIGHT_TO"][s] : e \in Edges(s)
        /\ bbOcc \ magics["KNIGHT_TO"][s] # {}
        /\ Cardinality(bbAtt[s]) < Cardinality(LShapes[s])

(***************************************************************************)
(* C16.  BetweenBB as stated: BetweenBB[s1][s2] is the squares strictly    *)
(* between s1 and s2 on a shared rank or file, together with s2, and       *)
(* nothing else.                                                           *)
(***************************************************************************)
C16_AsClaimed ==
    lnPc = "init" =>
        \A s2 \in Squares : lnBetween[s2] = Segment[lnS1][s2] \cup {s2}

(***************************************************************************)
(* C16 (amended).  BetweenBB[s1][s2] is the squares strictly between s1    *)
(* and s2 on a shared rank or file, together with s2 and, when s2 is a     *)
(* knight step away from s1, the leg square next to s2 of the knight step  *)
(* from s2 to s1.                                                          *)
(***************************************************************************)
C16_Between ==
    lnPc = "init" =>
        \A s2 \in Squares :
            lnBetween[s2] =
                Segment[lnS1][s2] \cup {s2}
                \cup (IF s2 \in LShapes[lnS1] THEN {LegSquare(s2, lnS1)} ELSE {})

\* a row with an entry of a rook line with squares in between, an entry of
\* an unrelated square, and an entry of a knight step with its leg square
C16_Witness ==
    /\ lnPc = "init"
    /\ \E s2 \in Squares : Segment[lnS1][s2] # {} /\ Segment[lnS1][s2] \subseteq lnBetween[s2]
    /\ \E s2 \in Squares : s2 # lnS1 /\ lnBetween[s2] = {s2}
    /\ \E s2 \in LShapes[lnS1] :
        /\ Cardinality(lnBetween[s2]) = 2
        /\ LegSquare(s2, lnS1) \in lnBetween[s2]
        /\ LegSquare(lnS1, s2) \notin lnBetween[s2]

(***************************************************************************)
(* Kinds of command line, for the statements about the command loop.       *)
(***************************************************************************)
KnownTokens ==
    {"quit", "stop", "ponderhit", "uci", "setoption", "go", "position", "fen",
     "startpos", "ucinewgame", "isready", "flip", "bench", "speedtest", "d", "eval",
     "compiler", "export_net", "--help", "help", "--license", "license"}

\* an empty line or a line whose first token starts with '#'
Ignored(cmdline) == cmdline = <<>> \/ starts_with_hash(cmdline[1])

\* a line whose first token is no command
Unrecognised(cmdline) == ~Ignored(cmdline) /\ cmdline[1] \notin KnownTokens

\* a position command whose first argument is neither startpos nor fen
BadPosition(cmdline) ==
    /\ cmdline # <<>>
    /\ cmdline[1] = "position"
    /\ (Len(cmdline) = 1 \/ cmdline[2] \notin {"startpos", "fen"})

(***************************************************************************)
(* C18.  Malformed input as stated: an unrecognised command only prints    *)
(* "Unknown command", empty lines and '#' lines print nothing, a position  *)
(* command with a bad first argument prints nothing; none of them changes  *)
(* the engine, and in all these cases the loop goes on to the next         *)
(* command.                                                                *)
(***************************************************************************)
C18_AsClaimed ==
    uciFresh =>
        /\ Unrecognised(uciCmd) =>
             uciOut = "Unknown command" /\ engine = uciBefore /\ uciPc = "loop"
        /\ (Ignored(uciCmd) \/ BadPosition(uciCmd)) =>
             uciOut = "none" /\ engine = uciBefore /\ uciPc = "loop"

(***************************************************************************)
(* C18 (amended).  An unrecognised command only prints "Unknown command",  *)
(* empty lines and '#' lines print nothing, a position command with a bad  *)
(* first argument prints nothing; none of them changes the engine.  The    *)
(* loop goes on to the next command when it reads standard input; when     *)
(* the command came from the command line the loop ends after it.          *)
(***************************************************************************)
C18_Malformed ==
    uciFresh =>
        /\ Unrecognised(uciCmd) =>
             /\ uciOut = "Unknown command"
             /\ engine = uciBefore
             /\ (uciPc = "loop") <=> (cliArgc = 1)
        /\ (Ignored(uciCmd) \/ BadPosition(uciCmd)) =>
             /\ uciOut = "none"
             /\ engine = uciBefore
             /\ (uciPc = "loop") <=> (cliArgc = 1)

\* a bad position command read from standard input while a search runs on
\* a position that an earlier command has set
C18_Witness ==
    /\ uciFresh
    /\ cliArgc = 1
    /\ BadPosition(uciCmd)
    /\ Len(uciCmd) > 1
    /\ engine.searching
    /\ engine.pos # NewEngine.pos
    /\ engine = uciBefore
    /\ uciPc = "loop"

(***************************************************************************)
(* C19.  The loop as stated: absent a stop and a depth limit it runs one   *)
(* iteration for every rootDepth from 1 through MAX_PLY inclusive and      *)
(* then ends.                                                              *)
(***************************************************************************)
C19_AsClaimed ==
    (~stop /\ idLimitDepth = 0 /\ idPc = "done") =>
        idRan = MAX_PLY /\ idLastDepth = MAX_PLY

(***************************************************************************)
(* C19 (amended).  Absent a stop and a depth limit the k-th iteration of   *)
(* the loop runs at rootDepth k, for k from 1 through MAX_PLY - 1; the     *)
(* loop ends with rootDepth = MAX_PLY, at which no iteration runs; and     *)
(* the loop always ends.                                                   *)
(***************************************************************************)
C19_Depths ==
    (~stop /\ idLimitDepth = 0) =>
        /\ idLastDepth = idRan
        /\ idPc \in {"loop", "body"} => rootDepth[0] = idRan
        /\ idPc = "done" => idRan = MAX_PLY - 1 /\ rootDepth[0] = MAX_PLY

C19_Loop == [](C19_Depths) /\ <>(idPc = "done")

\* the loop has ended by itself after the iteration at MAX_PLY - 1
C19_Witness ==
    /\ idPc = "done"
    /\ ~stop
    /\ idLimitDepth = 0
    /\ ~idMainThread
    /\ completedDepth[0] = MAX_PLY - 1
    /\ rootDepth[0] = MAX_PLY

NothingStored ==
    /\ ttWrite' = NoWrite
    /\ (Len(stack) > 0 /\ Len(stack') >= Len(stack)) =>
          /\ stack'[Len(stack)].bestMove = Top.bestMove
          /\ stack'[Len(stack)].bestValue = Top.bestValue

\* C21 as stated: once threads.stop is set, an invocation whose child
\* returned because of the stop writes neither the transposition table nor
\* its best value or best move with the value of that child.
C21_AsClaimed == [][(stop /\ lastRet.why = "stop") => NothingStored]_vars

\* the part of C21 that holds: in the move loop (steps 16-19) the value of a
\* child that returned because of the stop is never stored.
C21_MoveLoop ==
    [][(stop /\ lastRet.why = "stop" /\ Len(stack) > 0
          /\ Top.pc \in {"lmr_ret", "full_ret", "pv_ret"}) => NothingStored]_vars

\* C22: an invocation of search that ends its move loop with moveCount = 0
\* returns mated_in(ply) when no move is excluded and alpha when a move is
\* excluded; a move that is pruned has been counted, and an invocation with
\* moveCount > 0 returns the best value of its moves, never mated_in(ply).
C22_NoMoves ==
    [][ /\ Running("search", "after") =>
           LET f == Top
           IN  /\ (f.moveCount = 0 /\ ~f.excluded) => retVal' = mated_in(f.ply)
               /\ (f.moveCount = 0 /\ f.excluded) => retVal' = f.alpha
               /\ f.moveCount > 0 => /\ f.bestValue > -VALUE_INFINITE
                                     /\ retVal' # mated_in(f.ply)
        /\ (Running("search", "next") /\ Len(stack') = Len(stack)
              /\ stack'[Len(stack)].pc = "next") =>
           stack'[Len(stack)].moveCount = Top.moveCount + 1 ]_vars

\* an invocation without a legal move has returned a mated-in value
C22_Witness == lastRet.why = "nomoves" /\ is_loss(retVal)

\* an invocation whose only moves are excluded has returned, and an
\* invocation is about to return after a move of it was pruned
C22_WitnessExcluded == lastRet.why = "nomoves" /\ ~is_loss(retVal)

C22_WitnessPruned ==
    /\ Running("search", "after")
    /\ Top.moveCount > Top.dm
    /\ Top.tries = 0

(***************************************************************************)
(* Claims about the null move (SpecNmp).                                   *)
(***************************************************************************)
\* the invocations that wait for their verification search
NmVerifying == { i \in 1..Len(nmStack) : nmStack[i].pc = "verify_ret" }

\* C23: the verification search of the null move is never nested: at most
\* one invocation waits for a verification search, nmpMinPly is non-zero
\* exactly while one does (so none starts while nmpMinPly is non-zero, and
\* nmpMinPly is 0 again once the verification search has returned), and its
\* value is then ply + 3 * (depth - R) / 4 of that invocation.
C23_NotNested ==
    /\ Cardinality(NmVerifying) <= 1
    /\ nmpMinPly # 0 <=> NmVerifying # {}
    /\ \A i \in NmVerifying :
          /\ nmpMinPly = nmStack[i].ply
                         + TruncDiv(3 * (nmStack[i].depth - nmStack[i].R), 4)
          /\ nmpMinPly >= 1

\* inside a verification search an invocation of depth 15 or more is back
\* from a null move: only the test of nmpMinPly keeps it from verifying
C23_Witness ==
    /\ NmRunning("null_ret")
    /\ nmpMinPly # 0
    /\ NmTop.depth >= 15
    /\ NmTop.ply >= nmpMinPly

\* a verification search has returned and its caller goes on
C23_WitnessReturned ==
    /\ nmpMinPly = 0
    /\ \E i \in 1..Len(nmStack) : nmStack[i].R > 0 /\ nmStack[i].pc = "moves"

(***************************************************************************)
(* Claims about the aspiration loop (SpecAsp).                             *)
(***************************************************************************)
\* every call of search<Root> has -VALUE_INFINITE <= alpha < beta <=
\* VALUE_INFINITE and a depth of at least 1
C24_Calls ==
    asp.pc \in {"loop", "searched"} =>
        /\ -VALUE_INFINITE <= asp.alpha
        /\ asp.alpha < asp.beta
        /\ asp.beta <= VALUE_INFINITE
        /\ asp.pc = "searched" => asp.adjustedDepth >= 1

\* a retry: delta grows by delta / 3, which is positive; a fail-low sets beta
\* to the midpoint, alpha to max(bestValue - delta, -VALUE_INFINITE) and the
\* fail-high counter to 0; a fail-high sets beta to min(bestValue + delta,
\* VALUE_INFINITE) and leaves alpha alone
C24_Retry ==
    (asp.pc = "searched" /\ asp'.pc = "loop") =>
        /\ asp'.delta = asp.delta + TruncDiv(asp.delta, 3)
        /\ asp'.delta > asp.delta
        /\ asp.bestValue <= asp.alpha =>
              /\ asp'.beta = TruncDiv(asp.alpha + asp.beta, 2)
              /\ asp'.alpha = Max(asp.bestValue - asp.delta, -VALUE_INFINITE)
              /\ asp'.failedHighCnt = 0
        /\ asp.bestValue > asp.alpha =>
              /\ asp.bestValue >= asp.beta
              /\ asp'.beta = Min(asp.bestValue + asp.delta, VALUE_INFINITE)
              /\ asp'.alpha = asp.alpha
              /\ asp'.failedHighCnt = asp.failedHighCnt + 1

\* C24: for every sequence of values of search<Root> strictly between
\* -VALUE_INFINITE and VALUE_INFINITE the aspiration loop is left without
\* threads.stop; every retry widens the window as C24_Retry says and every
\* call is made with a window and a depth as C24_Calls says.
C24_Aspiration == [](C24_Calls) /\ [][C24_Retry]_vars /\ <>(asp.pc = "done")

\* the loop is left after fail-lows and fail-highs, with the full window
C24_Witness ==
    /\ asp.pc = "done"
    /\ asp.alpha = -VALUE_INFINITE
    /\ asp.beta = VALUE_INFINITE
    /\ asp.failedHighCnt >= 2

(***************************************************************************)
(* Claims about the singular search (SpecSearch).                          *)
(***************************************************************************)
\* the invocations of search that wait for their singular search
SingularWaiting ==
    { i \in 1..Len(stack) : stack[i].fn = "search" /\ stack[i].pc = "singular_ret" }

\* invocation i was entered with (ss)->excludedMove set: it is the singular
\* search of the invocation below it
EnteredExcluded(i) == i > 1 /\ (i - 1) \in SingularWaiting

C25_Frames ==
    /\ \A p \in 0..MaxPlyModel :
          ssExcl[p] <=> \E i \in SingularWaiting : stack[i].ply = p
    /\ \A i, j \in SingularWaiting : stack[i].ply = stack[j].ply => i = j
    /\ \A i \in SingularWaiting : ~EnteredExcluded(i) /\ ~stack[i].excluded
    /\ \A i \in 1..Len(stack) :
          /\ EnteredExcluded(i) => stack[i].ply = stack[i - 1].ply
          /\ (stack[i].fn = "search" /\ stack[i].pc \notin {"entry", "rule", "poll", "tt"})
                => (stack[i].excluded <=> EnteredExcluded(i))

C25_Returns ==
    (Len(stack) > 0 /\ Len(stack') < Len(stack) /\ Top.fn = "search"
         /\ ~EnteredExcluded(Len(stack)))
      => ~ssExcl'[Top.ply]

\* C25: (ss)->excludedMove is set exactly while the invocation at that stack
\* frame waits for its singular search; an invocation entered with
\* excludedMove set starts no singular search, so at most one is open per
\* frame; an invocation entered with excludedMove = none returns, also by
\* the multi-cut, with excludedMove = none.
C25_Singular == [](C25_Frames) /\ [][C25_Returns]_vars

\* a multi-cut return out of an invocation that ran inside a singular search
\* of a lower frame
C25_Witness ==
    /\ lastRet.why = "multicut"
    /\ SingularWaiting # {}
    /\ Len(stack) > 0 /\ ~ssExcl[Top.ply + 1]

\* an invocation entered with excludedMove set is at its table move
C25_WitnessExcluded ==
    /\ Running("search", "next")
    /\ EnteredExcluded(Len(stack))
    /\ Top.excluded /\ Top.ttMove /\ Top.depth >= 5 /\ Top.moveCount = 0

(***************************************************************************)
(* Claims about the iterations (SpecIter).                                 *)
(***************************************************************************)
C26_Order == completedDepth[0] <= rootDepth[0]

\* a step that changes completedDepth
C26_Advance ==
    /\ stop => stop'
    /\ completedDepth' # completedDepth =>
          /\ iter.pc = "end"
          /\ ~stop
          /\ completedDepth'[0] = rootDepth[0]
          /\ completedDepth'[0] > completedDepth[0]
          /\ iter.lines = 0..(iter.multiPV - 1)
          /\ ~iter.sawStop

\* C26: completedDepth becomes rootDepth only at the end of an iteration in
\* which threads.stop was never set, every MultiPV line was searched to its
\* end and no call of search saw threads.stop; completedDepth <= rootDepth
\* in every state.
C26_Completed == [](C26_Order) /\ [][C26_Advance]_vars

\* the second iteration of two lines is complete
C26_Witness ==
    /\ iter.pc = "loop"
    /\ iter.multiPV = 2
    /\ completedDepth[0] = 2
    /\ rootDepth[0] = 2
    /\ iter.lines = {0, 1}

\* an iteration ends with threads.stop set after its lines were searched:
\* completedDepth stays behind
C26_WitnessStopped ==
    /\ iter.pc = "loop"
    /\ stop
    /\ ~iter.sawStop
    /\ iter.lines = 0..(iter.multiPV - 1)
    /\ rootDepth[0] = 2
    /\ completedDepth[0] = 1

(***************************************************************************)
(* Claims about threads.stop and threads.abortedSearch (SpecFlags).        *)
(***************************************************************************)
\* C27, as stated: in every state a worker that has read
\* threads.abortedSearch = true finds threads.stop = true.
C27_AsClaimed == flg.readAborted => stop

\* once check_time has returned, threads.abortedSearch implies threads.stop
C27_AfterCheckTime == flg.ct # "aborted_stored" => (abortedSearch => stop)

(***************************************************************************)
(* Claims about start_searching of the main worker (Spec).                 *)
(***************************************************************************)
\* the bestmove line is printed by the last step of start_searching, once,
\* with threads.stop set and no worker searching
C28_Emit ==
    bestmove' # bestmove =>
        /\ bestmove = -1
        /\ mainPc = "emit" /\ mainPc' = "done"
        /\ stop
        /\ \A w \in Workers : wpc[w] \in {"idle", "done"}

C28_Line ==
    /\ mainPc = "done" <=> bestmove # -1
    /\ mainPc = "done" <=> on_bestmove # <<>>
    /\ on_bestmove # <<>> =>
          /\ SubSeq(on_bestmove, 1, 2) = <<"bestmove", " ">>
          /\ stop
          /\ \A w \in Workers : wpc[w] \in {"idle", "done"}

\* a root position without a legal move
C28_NoMoves ==
    ~hasMoves =>
        /\ \A w \in Workers : wpc[w] = "idle" /\ rootDepth[w] = 0 /\ completedDepth[w] = 0
        /\ mainPc # "start" =>
              /\ lastInfo.kind = "nomoves"
              /\ lastInfo.depth = 0
              /\ lastInfo.score = -VALUE_MATE
        /\ mainPc = "done" =>
              on_bestmove = <<"bestmove", " ", "(", "n", "o", "n", "e", ")">>
        /\ (stop /\ mainPc \in {"start", "wait"}) => cmd
        /\ (mainPc \in {"join", "select", "reemit", "emit", "done"}
              /\ (ponder \/ limits.infinite)) => cmd

\* C28: a run of start_searching on the main worker prints one bestmove
\* line, after threads.stop was set and every worker has finished; without
\* a legal root move no worker is started and no search runs, the info line
\* has depth 0 and score -VALUE_MATE, the bestmove is "(none)", and under
\* ponder or infinite it is printed only after a stop command.
C28_Bestmove == [](C28_Line /\ C28_NoMoves) /\ [][C28_Emit]_vars

\* "(none)" is printed after a stop command ended the wait of go infinite
C28_Witness ==
    /\ ~hasMoves
    /\ limits.infinite
    /\ mainPc = "done"
    /\ cmd
    /\ on_bestmove = <<"bestmove", " ", "(", "n", "o", "n", "e", ")">>

\* the move of a worker is printed after a search of all workers
C28_WitnessSearched ==
    /\ hasMoves
    /\ mainPc = "done"
    /\ on_bestmove = <<"bestmove", " ", "b", "2", "b", "5">>
    /\ \A w \in Workers : wpc[w] = "done" /\ rootDepth[w] >= 1

(***************************************************************************)
(* Claims about TimeManagement::init (SpecTime).                           *)
(***************************************************************************)
\* C29, as stated: for a clock above 0 and non-negative increment, movestogo
\* and Move Overhead, mtg is between 1 and 60, timeLeft is at least 1, and
\* no budget formula divides by zero.
C29_AsClaimed ==
    tmi.pc = "done" =>
        /\ tmi.mtg >= 1 /\ tmi.mtg <= 60
        /\ tmi.timeLeft >= 1
        /\ 0 \notin tmi.divisors

\* what holds: timeLeft >= 1, mtg <= 60, and mtg >= 1 unless the clock is
\* below 20 ms and mtg was shrunk
C29_TimeLeft ==
    tmi.pc = "done" =>
        /\ tmi.timeLeft >= 1
        /\ tmi.mtg >= 0 /\ tmi.mtg <= 60
        /\ tmi.mtg = 0 => tmi.time < 20
        /\ 0 \in tmi.divisors <=> (tmi.mtg = 0 /\ tmi.movestogo # 0)

(***************************************************************************)
(* Claims about the subset enumeration of init_magics (SpecRippler).       *)
(***************************************************************************)
\* the subsets of the mask
SubsetsOf(mask) == { x \in 0..(RipplerWidth - 1) : BitAnd(x, mask) = x }

C30_Visits ==
    crp.pc \in {"loop", "done"} =>
        /\ Len(crp.stored) = crp.size
        /\ \A i \in DOMAIN crp.stored : crp.stored[i] \in SubsetsOf(crp.mask)
        /\ \A i, j \in DOMAIN crp.stored : crp.stored[i] = crp.stored[j] => i = j
        /\ crp.b \in SubsetsOf(crp.mask)
        /\ (crp.pc = "loop" /\ crp.size > 0) => crp.b # 0
        /\ crp.pc = "loop" => \A i \in DOMAIN crp.stored : crp.stored[i] # crp.b
        /\ crp.pc = "done" =>
              /\ crp.b = 0
              /\ crp.size = Pow2(popcount(crp.mask))
              /\ { crp.stored[i] : i \in DOMAIN crp.stored } = SubsetsOf(crp.mask)

\* C30: from b = 0 the step b := (b - mask) & mask visits every subset of
\* the mask exactly once and is back at 0 after 2^popcount(mask) steps: the
\* loop of init_magics ends and has stored one entry per subset.
C30_Rippler == [](C30_Visits) /\ <>(crp.pc = "done")

\* the loop has ended for a mask of four squares that are not adjacent bits
C30_Witness ==
    /\ crp.pc = "done"
    /\ crp.mask = 45
    /\ crp.size = 16
    /\ crp.stored[2] = 1 /\ crp.stored[16] = 45

====
